---- MODULE Spec2Model ----
(***************************************************************************)
(* Draw2Diagram: the canvas interaction controller (components/Canvas),    *)
(* the geometry engine (utils/geometry.ts) and the undo history            *)
(* (hooks/useHistoryState), as a state machine.                            *)
(*                                                                         *)
(* Numbers.  A JavaScript number is modelled as an exact rational <<n, d>> *)
(* in lowest terms with d > 0; d = 0 encodes the non-finite values:        *)
(* <<1,0>> = Infinity, <<-1,0>> = -Infinity, <<0,0>> = NaN.  IEEE rounding *)
(* and the sign of zero are not modelled.                                  *)
(***************************************************************************)
EXTENDS Integers, Sequences, FiniteSets, TLC

\* ------------------------------------------------------------- numbers

Abs(i) == IF i < 0 THEN -i ELSE i

Sign(i) == IF i < 0 THEN -1 ELSE IF i > 0 THEN 1 ELSE 0

RECURSIVE Gcd(_, _)
Gcd(a, b) == IF b = 0 THEN a ELSE Gcd(b, a % b)

Reduce(n, d, g) == <<n \div g, d \div g>>

\* the rational n/d in lowest terms with a positive denominator
Norm(n, d) ==
    IF d = 0 THEN <<Sign(n), 0>>
    ELSE IF d < 0 THEN Reduce(-n, -d, Gcd(Abs(n), -d))
    ELSE Reduce(n, d, Gcd(Abs(n), d))

R(i) == <<i, 1>>

Half(i) == Norm(i, 2)

NaN == <<0, 0>>

Infinity == <<1, 0>>

NegInfinity == <<-1, 0>>

IsNaN(a) == a = NaN

isFinite(a) == a[2] # 0

Neg(a) == <<-a[1], a[2]>>

\* a + b for finite a, b, over the common denominator a[2] * b[2] / g
AddOver(a, b, g) == Norm(a[1] * (b[2] \div g) + b[1] * (a[2] \div g), a[2] * (b[2] \div g))

Add(a, b) ==
    IF a = NaN \/ b = NaN THEN NaN
    ELSE IF a[2] = 0 THEN (IF b[2] # 0 \/ a = b THEN a ELSE NaN)
    ELSE IF b[2] = 0 THEN b
    ELSE AddOver(a, b, Gcd(a[2], b[2]))

Sub(a, b) == Add(a, <<-b[1], b[2]>>)

\* n1/d1 * n2/d2, reduced crosswise by h1 | n1, d2 and h2 | n2, d1
FracOver(n1, d1, n2, d2, h1, h2) == Norm((n1 \div h1) * (n2 \div h2), (d1 \div h2) * (d2 \div h1))

Gcd1(i, j) == IF i = 0 /\ j = 0 THEN 1 ELSE Gcd(i, j)

Frac(n1, d1, n2, d2) == FracOver(n1, d1, n2, d2, Gcd1(Abs(n1), Abs(d2)), Gcd1(Abs(n2), Abs(d1)))

Mul(a, b) == Frac(a[1], a[2], b[1], b[2])

Div(a, b) == Frac(a[1], a[2], b[2], b[1])

LtOver(a, b, g) == a[1] * (b[2] \div g) < b[1] * (a[2] \div g)

Lt(a, b) ==
    IF a = NaN \/ b = NaN THEN FALSE
    ELSE IF a[2] = 0 THEN (IF b[2] = 0 THEN a[1] < b[1] ELSE a[1] < 0)
    ELSE IF b[2] = 0 THEN b[1] > 0
    ELSE LtOver(a, b, Gcd(a[2], b[2]))

Gt(a, b) == Lt(b, a)

Le(a, b) == a # NaN /\ b # NaN /\ ~Lt(b, a)

Ge(a, b) == Le(b, a)

\* Math.min / Math.max of two numbers (NaN is contagious).
Min(a, b) == IF a = NaN \/ b = NaN THEN NaN ELSE IF Lt(b, a) THEN b ELSE a

Max(a, b) == IF a = NaN \/ b = NaN THEN NaN ELSE IF Lt(a, b) THEN b ELSE a

RAbs(a) == <<Abs(a[1]), a[2]>>

\* floor(sqrt(m)) for a natural m, by bisection on [lo, hi).
RECURSIVE ISqrtIn(_, _, _)
ISqrtIn(m, lo, hi) ==
    IF hi - lo <= 1 THEN lo
    ELSE LET mid == (lo + hi) \div 2
         IN  IF mid * mid <= m THEN ISqrtIn(m, mid, hi) ELSE ISqrtIn(m, lo, mid)

\* (the root of a number that fits 31 bits is below 46341)
ISqrt(m) == ISqrtIn(m, 0, IF m < 46340 THEN m + 1 ELSE 46341)

\* Math.sqrt on a non-negative finite number: exact on squares of rationals,
\* otherwise rounded down to a multiple of 1/(d * SqrtGrain).
SqrtGrain == 16

SqrtFrom(a, r) ==
    IF r * r = a[1] * a[2] THEN Norm(r, a[2])
    ELSE Norm(ISqrt(a[1] * a[2] * SqrtGrain * SqrtGrain), a[2] * SqrtGrain)

Sqrt(a) ==
    IF a[2] = 0 THEN a
    ELSE IF a[1] < 0 THEN NaN
    ELSE SqrtFrom(a, ISqrt(a[1] * a[2]))

\* x^2 + y^2
Hypot2(x, y) == Add(Mul(x, x), Mul(y, y))

\* ------------------------------------------------------------- values

Null == [null |-> TRUE]

\* null where an identity is expected (identities are positive numbers)
NoId == 0

Pt(x, y) == [x |-> x, y |-> y]

P(i, j) == Pt(R(i), R(j))

Box(x0, y0, x1, y1) == [minX |-> x0, minY |-> y0, maxX |-> x1, maxY |-> y1]

ZeroBox == Box(R(0), R(0), R(0), R(0))

\* map / filter / reverse over sequences
MapSeq(s, F(_)) == [i \in 1..Len(s) |-> F(s[i])]

Reverse(s) == [i \in 1..Len(s) |-> s[Len(s) + 1 - i]]

Range(s) == {s[i] : i \in 1..Len(s)}

RECURSIVE FoldBox(_, _, _)
FoldBox(s, i, acc) ==
    IF i > Len(s) THEN acc
    ELSE FoldBox(s, i + 1, Box(Min(acc.minX, s[i].minX), Min(acc.minY, s[i].minY),
                               Max(acc.maxX, s[i].maxX), Max(acc.maxY, s[i].maxY)))

EmptyBox == Box(Infinity, Infinity, NegInfinity, NegInfinity)

PointBox(p) == Box(p.x, p.y, p.x, p.y)

\* min/max over a list of points, started at +/-Infinity as the source does
BoxOfPoints(pts) == FoldBox(MapSeq(pts, PointBox), 1, EmptyBox)

\* ------------------------------------------------------------- elements
\* An Element is a record with every field of the union present:
\*   id, type, points, style, pathData, bounds, text, startElementId
\* pathData is the command list the path string tokenizes to; bounds is Null
\* when the variant stores none.

Style(strokeColor, fillColor, strokeWidth, fontSize) ==
    [strokeColor |-> strokeColor, fillColor |-> fillColor,
     strokeWidth |-> strokeWidth, fontSize |-> fontSize]

Elem(id, type, points, style) ==
    [id |-> id, type |-> type, points |-> points, style |-> style,
     pathData |-> <<>>, bounds |-> Null, text |-> "", startElementId |-> NoId,
     endElementId |-> NoId, imageUrl |-> ""]

Cmd(c, args) == [cmd |-> c, args |-> args]

\* ctx.measureText(text).width for the sans-serif font of the given size: the
\* browser's text metrics, taken as half an em per character.
TextLength(t) == CASE t = "" -> 0 [] t = "Text" -> 4 [] OTHER -> 2

measureText(t, fontSize) == Mul(R(TextLength(t)), Div(fontSize, R(2)))

DefaultFontSize == 24

\* style.fontSize || 24: an absent font size is written 0
fontSizeOf(el) == IF el.style.fontSize = R(0) THEN R(DefaultFontSize) ELSE el.style.fontSize

CircleBox(center, radius) ==
    Box(Sub(center.x, radius), Sub(center.y, radius), Add(center.x, radius), Add(center.y, radius))

TextBox(x, y, text, fontSize) == Box(x, y, Add(x, measureText(text, fontSize)), Add(y, fontSize))

\* if (minX === Infinity) return the zero box
OrZeroBox(b) == IF b.minX = Infinity THEN ZeroBox ELSE b

getRawElementBounds(el) ==
    IF el.type \in {"path", "raster"} /\ el.bounds # Null THEN el.bounds
    ELSE IF el.type = "circle" /\ Len(el.points) >= 2 THEN
        CircleBox(el.points[1], Sqrt(Hypot2(Sub(el.points[2].x, el.points[1].x),
                                            Sub(el.points[2].y, el.points[1].y))))
    ELSE IF el.type = "text" /\ el.text # "" /\ Len(el.points) > 0 THEN
        TextBox(el.points[1].x, el.points[1].y, el.text, fontSizeOf(el))
    ELSE IF Len(el.points) > 0 THEN OrZeroBox(BoxOfPoints(el.points))
    ELSE ZeroBox

CenterOf(b) == Pt(Div(Add(b.minX, b.maxX), R(2)), Div(Add(b.minY, b.maxY), R(2)))

getElementCenter(el) == CenterOf(getRawElementBounds(el))

HitPadding == 5

Padded(b, padding) ==
    Box(Sub(b.minX, padding), Sub(b.minY, padding), Add(b.maxX, padding), Add(b.maxY, padding))

\* the padding taken as the whole stroke width
getElementBoundsByStroke(el) ==
    Padded(getRawElementBounds(el), Add(el.style.strokeWidth, R(HitPadding)))

getElementBounds(el) ==
    Padded(getRawElementBounds(el), Add(Div(el.style.strokeWidth, R(2)), R(HitPadding)))

\* the union of the padded bounds
getElementsBoundsPadded(els) ==
    IF Len(els) = 0 THEN ZeroBox
    ELSE FoldBox(MapSeq(els, getElementBounds), 1, EmptyBox)

getElementsBounds(els) ==
    IF Len(els) = 0 THEN ZeroBox
    ELSE FoldBox(MapSeq(els, getRawElementBounds), 1, EmptyBox)

\* getAttachmentPoint, circle branch
circleAttachment(center, dx, dy, radius, dist) ==
    IF dist = R(0) THEN Pt(Add(center.x, radius), center.y)
    ELSE Pt(Add(center.x, Mul(Div(dx, dist), radius)), Add(center.y, Mul(Div(dy, dist), radius)))

\* getAttachmentPoint, the point on a vertical side x of the box
sideAttachment(center, x, slope) == Pt(x, Add(center.y, Mul(Sub(x, center.x), slope)))

\* getAttachmentPoint, the point on a horizontal side y of the box
capAttachment(center, y, slope) == Pt(Add(center.x, Div(Sub(y, center.y), slope)), y)

\* the edge chosen by the signed slope
boxAttachmentSigned(center, dx, dy, w, h, slope, hSlope) ==
    IF Lt(slope, hSlope)
    THEN sideAttachment(center, IF Gt(dx, R(0)) THEN Add(center.x, w) ELSE Sub(center.x, w), slope)
    ELSE capAttachment(center, IF Gt(dy, R(0)) THEN Add(center.y, h) ELSE Sub(center.y, h), slope)

boxAttachment(center, dx, dy, w, h, slope, hSlope) ==
    IF Lt(RAbs(slope), hSlope)
    THEN sideAttachment(center, IF Gt(dx, R(0)) THEN Add(center.x, w) ELSE Sub(center.x, w), slope)
    ELSE capAttachment(center, IF Gt(dy, R(0)) THEN Add(center.y, h) ELSE Sub(center.y, h), slope)

attachmentFrom(type, center, dx, dy, w, h) ==
    IF type = "circle" THEN circleAttachment(center, dx, dy, w, Sqrt(Hypot2(dx, dy)))
    ELSE IF dx = R(0) /\ dy = R(0) THEN Pt(Add(center.x, w), center.y)
    ELSE IF w = R(0) \/ h = R(0) THEN center
    ELSE boxAttachment(center, dx, dy, w, h, Div(dy, dx), Div(h, w))

attachmentOn(type, bounds, center, targetPoint) ==
    attachmentFrom(type, center, Sub(targetPoint.x, center.x), Sub(targetPoint.y, center.y),
                   Div(Sub(bounds.maxX, bounds.minX), R(2)), Div(Sub(bounds.maxY, bounds.minY), R(2)))

getAttachmentPoint(el, targetPoint) ==
    attachmentOn(el.type, getRawElementBounds(el), getElementCenter(el), targetPoint)

\* ------------------------------------------------------------- path data

ToUpper(c) ==
    CASE c = "m" -> "M" [] c = "l" -> "L" [] c = "h" -> "H" [] c = "v" -> "V"
      [] c = "c" -> "C" [] c = "s" -> "S" [] c = "q" -> "Q" [] c = "t" -> "T"
      [] c = "a" -> "A" [] c = "z" -> "Z" [] OTHER -> c

LowercaseLetters ==
    {"a", "b", "c", "d", "e", "f", "g", "h", "i", "j", "k", "l", "m", "n", "o", "p", "q", "r",
     "s", "t", "u", "v", "w", "x", "y", "z"}

\* command.toLowerCase() === command
isRelativeCmd(c) == c \in LowercaseLetters

\* args[i] of a JavaScript array: undefined past the end, NaN in arithmetic
ArgAt(args, i) == IF i <= Len(args) THEN args[i] ELSE NaN

\* an element the source copies without arithmetic: undefined past the end,
\* which Array.join writes as the empty string
CopyAt(args, i) == IF i <= Len(args) THEN <<args[i]>> ELSE <<>>

RECURSIVE TransformPairs(_, _, _, _, _, _)
TransformPairs(args, i, sx, sy, tx, ty) ==
    IF i > Len(args) THEN <<>>
    ELSE <<Add(Mul(ArgAt(args, i), sx), tx), Add(Mul(ArgAt(args, i + 1), sy), ty)>>
         \o TransformPairs(args, i + 2, sx, sy, tx, ty)

RECURSIVE TransformArcs(_, _, _, _, _, _)
TransformArcs(args, i, sx, sy, tx, ty) ==
    IF i > Len(args) THEN <<>>
    ELSE <<Mul(ArgAt(args, i), RAbs(sx)), Mul(ArgAt(args, i + 1), RAbs(sy))>>
         \o CopyAt(args, i + 2) \o CopyAt(args, i + 3) \o CopyAt(args, i + 4)
         \o <<Add(Mul(ArgAt(args, i + 5), sx), tx), Add(Mul(ArgAt(args, i + 6), sy), ty)>>
         \o TransformArcs(args, i + 7, sx, sy, tx, ty)

\* A number that Number.prototype.toString writes with an exponent: not zero
\* and below 1e-6 in magnitude (1e21 and above is beyond the numbers used).
WrittenWithExponent(v) == v[2] > 0 /\ v[1] # 0 /\ Abs(v[1]) <= (v[2] - 1) \div 1000000

\* the digits before the e of such a number: m with v = m * 10^-k, 1 <= |m| < 10
RECURSIVE MantissaOf(_)
MantissaOf(v) == IF Abs(v[1]) >= v[2] THEN v ELSE MantissaOf(Mul(v, R(10)))

\* the k of such a number
RECURSIVE ExponentFrom(_, _)
ExponentFrom(v, k) == IF Abs(v[1]) >= v[2] THEN k ELSE ExponentFrom(Mul(v, R(10)), k + 1)

\* The commands the text `${command} ${newArgs.join(' ')}` tokenizes to when it
\* is next read: a NaN is written as the letters N, a, N, which the command
\* pattern [A-Za-z] takes for three commands, and the e of an exponent is
\* taken for a command whose first argument is the exponent.
RECURSIVE Retokenize(_, _, _)
Retokenize(c, args, i) ==
    IF i > Len(args) THEN <<Cmd(c, args)>>
    ELSE IF IsNaN(args[i]) THEN
        <<Cmd(c, SubSeq(args, 1, i - 1)), Cmd("N", <<>>), Cmd("a", <<>>)>>
        \o Retokenize("N", SubSeq(args, i + 1, Len(args)), 1)
    ELSE IF WrittenWithExponent(args[i]) THEN
        <<Cmd(c, Append(SubSeq(args, 1, i - 1), MantissaOf(args[i])))>>
        \o Retokenize("e", <<R(0 - ExponentFrom(args[i], 0))>> \o SubSeq(args, i + 1, Len(args)), 2)
    ELSE Retokenize(c, args, i + 1)

transformWith(command, up, args, scaleX, scaleY, tx, ty) ==
    IF Len(args) = 0 /\ up # "Z" THEN <<Cmd(command, <<>>)>>
    ELSE IF up = "Z" THEN <<Cmd("Z", <<>>)>>
    ELSE IF up = "H" THEN
        Retokenize(command, [i \in 1..Len(args) |-> Add(Mul(args[i], scaleX), tx)], 1)
    ELSE IF up = "V" THEN
        Retokenize(command, [i \in 1..Len(args) |-> Add(Mul(args[i], scaleY), ty)], 1)
    ELSE IF up = "A" THEN
        Retokenize(command, TransformArcs(args, 1, scaleX, scaleY, tx, ty), 1)
    ELSE Retokenize(command, TransformPairs(args, 1, scaleX, scaleY, tx, ty), 1)

\* the replace callback with the translation applied to relative commands too
transformCommandTranslatingAll(command, args, scaleX, scaleY, translate) ==
    transformWith(command, ToUpper(command), args, scaleX, scaleY, translate.x, translate.y)

\* the replace callback for one command; isRelative drops the translation
transformCommand(command, args, scaleX, scaleY, translate) ==
    transformWith(command, ToUpper(command), args, scaleX, scaleY,
                  IF isRelativeCmd(command) THEN R(0) ELSE translate.x,
                  IF isRelativeCmd(command) THEN R(0) ELSE translate.y)

RECURSIVE transformFrom(_, _, _, _, _)
transformFrom(pathData, i, scaleX, scaleY, translate) ==
    IF i > Len(pathData) THEN <<>>
    ELSE transformCommand(pathData[i].cmd, pathData[i].args, scaleX, scaleY, translate)
         \o transformFrom(pathData, i + 1, scaleX, scaleY, translate)

transformPathData(pathData, scaleX, scaleY, translate) ==
    IF Len(pathData) = 0 THEN <<>>
    ELSE transformFrom(pathData, 1, scaleX, scaleY, translate)

translatePathData(pathData, dx, dy) ==
    IF Len(pathData) = 0 THEN <<>>
    ELSE transformPathData(pathData, R(1), R(1), Pt(dx, dy))

\* ---- the outline a path describes (what Path2D builds from the data) ----
\* Straight segments between the end points of successive commands; a curve
\* or arc is taken along its chord.  Reading stops at the first command that
\* is unknown or has an incomplete argument group, as the browser's parser does.

GroupSize(up) ==
    CASE up \in {"M", "L", "T"} -> 2
      [] up \in {"H", "V"} -> 1
      [] up = "C" -> 6
      [] up \in {"S", "Q"} -> 4
      [] up = "A" -> 7
      [] up = "Z" -> 0
      [] OTHER -> -1

Outline(segs, closers) == [segs |-> segs, closers |-> closers]

RECURSIVE Walk(_, _, _, _, _, _, _)

\* the end point of the argument group at j
EndPoint(up, args, j, n, cur, ox, oy) ==
    IF up = "H" THEN Pt(Add(args[j], ox), cur.y)
    ELSE IF up = "V" THEN Pt(cur.x, Add(args[j], oy))
    ELSE Pt(Add(args[j + n - 2], ox), Add(args[j + n - 1], oy))

WalkTo(pd, i, j, isMove, cur, start, pt, segs, closers) ==
    IF isMove
    THEN Walk(pd, i, j, pt, pt, segs, Append(closers, <<cur, start>>))
    ELSE Walk(pd, i, j, pt, start, Append(segs, <<cur, pt>>), closers)

WalkGroup(pd, i, j, cur, start, segs, closers, args, up, rel, n) ==
    IF n = -1 THEN Outline(segs, Append(closers, <<cur, start>>))
    ELSE IF up = "Z" THEN Walk(pd, i + 1, 1, start, start, Append(segs, <<cur, start>>), closers)
    ELSE IF j > Len(args) THEN
        (IF j = 1 THEN Outline(segs, Append(closers, <<cur, start>>))
         ELSE Walk(pd, i + 1, 1, cur, start, segs, closers))
    ELSE IF j + n - 1 > Len(args) THEN Outline(segs, Append(closers, <<cur, start>>))
    ELSE WalkTo(pd, i, j + n, up = "M" /\ j = 1, cur, start,
                EndPoint(up, args, j, n, cur, IF rel THEN cur.x ELSE R(0), IF rel THEN cur.y ELSE R(0)),
                segs, closers)

Walk(pd, i, j, cur, start, segs, closers) ==
    IF i > Len(pd) THEN Outline(segs, Append(closers, <<cur, start>>))
    ELSE WalkGroup(pd, i, j, cur, start, segs, closers, pd[i].args, ToUpper(pd[i].cmd),
                   isRelativeCmd(pd[i].cmd), GroupSize(ToUpper(pd[i].cmd)))

PathOutline(pd) == Walk(pd, 1, 1, P(0, 0), P(0, 0), <<>>, <<>>)

\* bounding box of the outline's points (EmptyBox when nothing is drawn)
SegBox(sg) == Box(Min(sg[1].x, sg[2].x), Min(sg[1].y, sg[2].y),
                  Max(sg[1].x, sg[2].x), Max(sg[1].y, sg[2].y))

PathGeometryBounds(pd) == FoldBox(MapSeq(PathOutline(pd).segs, SegBox), 1, EmptyBox)

\* The squared distance from the point to closestPoint = p1 + closestT * (dx, dy)
\* of isPointNearLine, closestT = max(0, min(1, t)); w and v are the point
\* relative to p1 and to p2.  For 0 < t < 1 the square is
\* (wx * dy - wy * dx)^2 / (dx^2 + dy^2), the same rational in smaller integers.
SegDist2At(dx, dy, wx, wy, vx, vy, len2, t, cross) ==
    IF t = NaN THEN NaN
    ELSE IF Le(t, R(0)) THEN Hypot2(wx, wy)
    ELSE IF Ge(t, R(1)) THEN Hypot2(vx, vy)
    ELSE Div(Mul(cross, cross), len2)

SegDist2Over(dx, dy, wx, wy, vx, vy, len2) ==
    SegDist2At(dx, dy, wx, wy, vx, vy, len2, Div(Add(Mul(wx, dx), Mul(wy, dy)), len2),
               Sub(Mul(wx, dy), Mul(wy, dx)))

SegDist2From(dx, dy, wx, wy, vx, vy) == SegDist2Over(dx, dy, wx, wy, vx, vy, Hypot2(dx, dy))

SegDist2(p1, p2, point) ==
    SegDist2From(Sub(p2.x, p1.x), Sub(p2.y, p1.y), Sub(point.x, p1.x), Sub(point.y, p1.y),
                 Sub(point.x, p2.x), Sub(point.y, p2.y))

\* dist < threshold is decided on the squares, so that no root is rounded
isPointNearLine(p1, p2, point, threshold) ==
    IF p2.x = p1.x /\ p2.y = p1.y THEN FALSE
    ELSE Lt(SegDist2(p1, p2, point), Mul(threshold, threshold))

StrokeHit(segs, point, half2) ==
    \E k \in 1..Len(segs) :
        /\ segs[k][1] # segs[k][2]
        /\ Le(SegDist2(segs[k][1], segs[k][2], point), half2)

isPointInStroke(pd, point, lineWidth) ==
    StrokeHit(PathOutline(pd).segs, point, Mul(Div(lineWidth, R(2)), Div(lineWidth, R(2))))

\* crossing number of the ray to the right of the point, subpaths closed
Crosses(sg, point) ==
    /\ Gt(sg[1].y, point.y) # Gt(sg[2].y, point.y)
    /\ Lt(point.x, Add(sg[1].x, Div(Mul(Sub(point.y, sg[1].y), Sub(sg[2].x, sg[1].x)),
                                     Sub(sg[2].y, sg[1].y))))

OddCrossings(all, point) == Cardinality({k \in 1..Len(all) : Crosses(all[k], point)}) % 2 = 1

FillOutline(o) == o.segs \o o.closers

isPointInPath(pd, point) == OddCrossings(FillOutline(PathOutline(pd)), point)

\* ------------------------------------------------------------- hit-testing

\* panZoomState.scale, left at its initial value (pan and zoom are the host's)
ZoomScale == 1

HitSlack == 10

OutsideBox(point, b) ==
    Lt(point.x, b.minX) \/ Gt(point.x, b.maxX) \/ Lt(point.y, b.minY) \/ Gt(point.y, b.maxY)

isPointInElement(point, el, scale) ==
    IF OutsideBox(point, getElementBounds(el)) THEN FALSE
    ELSE IF el.type = "raster" THEN TRUE
    ELSE IF el.type = "path" /\ Len(el.pathData) > 0 THEN
        \/ isPointInPath(el.pathData, point)
        \/ isPointInStroke(el.pathData, point, Add(el.style.strokeWidth, Div(R(HitSlack), scale)))
    ELSE IF el.type = "line" /\ Len(el.points) >= 2 THEN
        isPointNearLine(el.points[1], el.points[2], point,
                        Add(Div(R(HitSlack), scale), Div(el.style.strokeWidth, R(2))))
    ELSE TRUE

\* points: null, written as a sequence that holds no point
NullPoints == <<Null>>

\* getRawElementBounds raises a TypeError: no recorded bounds are returned
\* first and element.points.length is read while points is null
rawBoundsThrow(el) == el.points = NullPoints /\ ~(el.type \in {"path", "raster"} /\ el.bounds # Null)

\* the scan with no try/catch: the first exception ends it without a result
RECURSIVE TopHitAborting(_, _, _)
TopHitAborting(els, point, i) ==
    IF i = 0 THEN 0
    ELSE IF rawBoundsThrow(els[i]) THEN 0
    ELSE IF isPointInElement(point, els[i], R(ZoomScale)) THEN i
    ELSE TopHitAborting(els, point, i - 1)

\* index of the topmost element under the point, 0 for null; an element whose
\* test raises is logged and skipped (try/catch around isPointInElement)
RECURSIVE TopHit(_, _, _)
TopHit(els, point, i) ==
    IF i = 0 THEN 0
    ELSE IF rawBoundsThrow(els[i]) THEN TopHit(els, point, i - 1)
    ELSE IF isPointInElement(point, els[i], R(ZoomScale)) THEN i
    ELSE TopHit(els, point, i - 1)

ElementOrNull(els, i) == IF i = 0 THEN Null ELSE els[i]

\* the scan over the collection as it is, bottom element first
RECURSIVE BottomHit(_, _, _)
BottomHit(els, point, i) ==
    IF i > Len(els) THEN 0
    ELSE IF ~rawBoundsThrow(els[i]) /\ isPointInElement(point, els[i], R(ZoomScale)) THEN i
    ELSE BottomHit(els, point, i + 1)

getElementAtPointInDrawOrder(els, point) == ElementOrNull(els, BottomHit(els, point, 1))

getElementAtPoint(els, point) == ElementOrNull(els, TopHit(els, point, Len(els)))

HandleNames == <<"nw", "n", "ne", "e", "se", "s", "sw", "w">>

HandleSize == 8

Around(x, y, halfHandle) ==
    Box(Sub(x, halfHandle), Sub(y, halfHandle), Add(x, halfHandle), Add(y, halfHandle))

handlesAt(b, midX, midY, halfHandle) ==
    [nw |-> Around(b.minX, b.minY, halfHandle), n |-> Around(midX, b.minY, halfHandle),
     ne |-> Around(b.maxX, b.minY, halfHandle), e |-> Around(b.maxX, midY, halfHandle),
     se |-> Around(b.maxX, b.maxY, halfHandle), s |-> Around(midX, b.maxY, halfHandle),
     sw |-> Around(b.minX, b.maxY, halfHandle), w |-> Around(b.minX, midY, halfHandle)]

getHandles(b) ==
    handlesAt(b, Div(Add(b.minX, b.maxX), R(2)), Div(Add(b.minY, b.maxY), R(2)),
              Div(Div(R(HandleSize), R(ZoomScale)), R(2)))

InBox(point, b) ==
    Ge(point.x, b.minX) /\ Le(point.x, b.maxX) /\ Ge(point.y, b.minY) /\ Le(point.y, b.maxY)

SelectedOf(els, sel) == LET T(el) == el.id \in sel IN SelectSeq(els, T)

\* null where a handle name is expected
NoHandle == ""

\* the first handle, in the order the handles object lists them
FirstOf(hits) == IF hits = {} THEN NoHandle ELSE HandleNames[CHOOSE k \in hits : \A m \in hits : k <= m]

HandleHits(handles, point) == {k \in 1..Len(HandleNames) : InBox(point, handles[HandleNames[k]])}

getHandleAtPoint(els, sel, point) ==
    IF Cardinality(sel) = 0 THEN NoHandle
    ELSE FirstOf(HandleHits(getHandles(getElementsBounds(SelectedOf(els, sel))), point))

\* ------------------------------------------------------------- undo history
\* useHistoryState: st = [history |-> <<S, ...>>, index |-> i], index counted
\* from 0 as in the source.  A canvas state is its element list.

current(st) == st.history[st.index + 1]

\* the committed update inserted after the current entry, the later entries kept
setStateKeepingRedo(st, newState, overwrite) ==
    IF overwrite
    THEN [st EXCEPT !.history = [st.history EXCEPT ![st.index + 1] = newState]]
    ELSE [history |-> SubSeq(st.history, 1, st.index + 1) \o <<newState>>
                          \o SubSeq(st.history, st.index + 2, Len(st.history)),
          index |-> st.index + 1]

\* the coalesced update written over the current entry, the later entries dropped
setStateDroppingRedo(st, newState, overwrite) ==
    LET newHistory == Append(SubSeq(st.history, 1, st.index + (IF overwrite THEN 0 ELSE 1)), newState)
    IN  [history |-> newHistory, index |-> Len(newHistory) - 1]

setState(st, newState, overwrite) ==
    IF overwrite
    THEN [st EXCEPT !.history = [st.history EXCEPT ![st.index + 1] = newState]]
    ELSE LET newHistory == Append(SubSeq(st.history, 1, st.index + 1), newState)
         IN  [history |-> newHistory, index |-> Len(newHistory) - 1]

\* the index lowered without the test against 0
undoUnguarded(st) == [st EXCEPT !.index = st.index - 1]

undo(st) == IF st.index > 0 THEN [st EXCEPT !.index = st.index - 1] ELSE st

redo(st) == IF st.index < Len(st.history) - 1 THEN [st EXCEPT !.index = st.index + 1] ELSE st

canUndo(st) == st.index > 0

canRedo(st) == st.index < Len(st.history) - 1

\* ------------------------------------------------------------- gesture arithmetic

Shift(p, dx, dy) == Pt(Add(p.x, dx), Add(p.y, dy))

ShiftBox(b, dx, dy) == Box(Add(b.minX, dx), Add(b.minY, dy), Add(b.maxX, dx), Add(b.maxY, dy))

ShiftAll(points, dx, dy) == [i \in 1..Len(points) |-> Shift(points[i], dx, dy)]

\* one selected element moved by (dx, dy): the switch on el.type
translateElement(el, dx, dy) ==
    CASE el.type = "path" ->
            [el EXCEPT !.points = ShiftAll(el.points, dx, dy),
                       !.pathData = translatePathData(el.pathData, dx, dy),
                       !.bounds = ShiftBox(el.bounds, dx, dy)]
      [] el.type = "raster" -> [el EXCEPT !.bounds = ShiftBox(el.bounds, dx, dy)]
      [] OTHER -> [el EXCEPT !.points = ShiftAll(el.points, dx, dy)]

Indices(s) == [i \in 1..Len(s) |-> i]

LastWithId(els, id) ==
    els[CHOOSE i \in 1..Len(els) : els[i].id = id /\ \A j \in (i + 1)..Len(els) : els[j].id # id]

HasId(els, id) == \E i \in 1..Len(els) : els[i].id = id

translateIfSelected(el, sel, dx, dy) == IF el.id \in sel THEN translateElement(el, dx, dy) ELSE el

\* the indices at which an identity occurs for the first time
FirstKeys(els) ==
    LET IsFirst(i) == \A j \in 1..(i - 1) : els[j].id # els[i].id
    IN  SelectSeq(Indices(els), IsFirst)

valuesAt(prevElements, keys, sel, dx, dy) ==
    [k \in 1..Len(keys) |->
        translateIfSelected(LastWithId(prevElements, prevElements[keys[k]].id), sel, dx, dy)]

\* new Map(prevElements.map(el => [el.id, el])), each selected id replaced by
\* its translated element, then Array.from(values): one entry per identity, at
\* the place of its first occurrence, holding its last occurrence
dragElements(prevElements, sel, dx, dy) == valuesAt(prevElements, FirstKeys(prevElements), sel, dx, dy)

HasE(h) == h \in {"e", "ne", "se"}

HasW(h) == h \in {"w", "nw", "sw"}

HasS(h) == h \in {"s", "se", "sw"}

HasN(h) == h \in {"n", "ne", "nw"}

IsCorner(h) == h \in {"nw", "ne", "sw", "se"}

SwapX(b) == IF Gt(b.minX, b.maxX) THEN [b EXCEPT !.minX = b.maxX, !.maxX = b.minX] ELSE b

SwapY(b) == IF Gt(b.minY, b.maxY) THEN [b EXCEPT !.minY = b.maxY, !.maxY = b.minY] ELSE b

\* Math.abs(newWidth / newHeight - originalAspectRatio) > 1e-2
AspectTolerance == Norm(1, 100)

lockHeight(handle, nb, aspectHeight) ==
    IF HasN(handle) THEN [nb EXCEPT !.minY = Sub(nb.maxY, aspectHeight)]
    ELSE [nb EXCEPT !.maxY = Add(nb.minY, aspectHeight)]

lockWidth(handle, nb, aspectWidth) ==
    IF HasW(handle) THEN [nb EXCEPT !.minX = Sub(nb.maxX, aspectWidth)]
    ELSE [nb EXCEPT !.maxX = Add(nb.minX, aspectWidth)]

\* the aspect lock with the height taken as width times ratio
aspectLockByProduct(handle, nb, originalAspectRatio, newWidth, newHeight) ==
    IF ~(isFinite(originalAspectRatio) /\ Gt(originalAspectRatio, R(0))) THEN nb
    ELSE IF ~Gt(RAbs(Sub(Div(newWidth, newHeight), originalAspectRatio)), AspectTolerance) THEN nb
    ELSE IF HasW(handle) \/ HasE(handle) THEN lockHeight(handle, nb, Mul(newWidth, originalAspectRatio))
    ELSE lockWidth(handle, nb, Div(newHeight, originalAspectRatio))

aspectLockBy(handle, nb, originalAspectRatio, newWidth, newHeight) ==
    IF ~(isFinite(originalAspectRatio) /\ Gt(originalAspectRatio, R(0))) THEN nb
    ELSE IF ~Gt(RAbs(Sub(Div(newWidth, newHeight), originalAspectRatio)), AspectTolerance) THEN nb
    ELSE IF HasW(handle) \/ HasE(handle) THEN lockHeight(handle, nb, Div(newWidth, originalAspectRatio))
    ELSE lockWidth(handle, nb, Mul(newHeight, originalAspectRatio))

aspectLock(handle, ib, nb) ==
    aspectLockBy(handle, nb, Div(Sub(ib.maxX, ib.minX), Sub(ib.maxY, ib.minY)),
                 Sub(nb.maxX, nb.minX), Sub(nb.maxY, nb.minY))

\* the edges the handle names follow the pointer
pulled(handle, ib, currentPoint) ==
    [minX |-> IF HasW(handle) THEN currentPoint.x ELSE ib.minX,
     minY |-> IF HasN(handle) THEN currentPoint.y ELSE ib.minY,
     maxX |-> IF HasE(handle) THEN currentPoint.x ELSE ib.maxX,
     maxY |-> IF HasS(handle) THEN currentPoint.y ELSE ib.maxY]

lockIf(lock, handle, ib, nb) == IF lock THEN aspectLock(handle, ib, nb) ELSE nb

\* the new group bounds of a resize tick
resizeBounds(handle, ib, currentPoint, shiftKey) ==
    lockIf(shiftKey /\ IsCorner(handle), handle, ib, SwapY(SwapX(pulled(handle, ib, currentPoint))))

\* the scale factors without the guard against an initial extent of 0
scaleOfUnguarded(initialWidth, initialHeight, finalWidth, finalHeight) ==
    Pt(Div(finalWidth, initialWidth), Div(finalHeight, initialHeight))

scaleOf(initialWidth, initialHeight, finalWidth, finalHeight) ==
    Pt(IF initialWidth = R(0) THEN R(1) ELSE Div(finalWidth, initialWidth),
       IF initialHeight = R(0) THEN R(1) ELSE Div(finalHeight, initialHeight))

resizeScale(ib, nb) ==
    scaleOf(Sub(ib.maxX, ib.minX), Sub(ib.maxY, ib.minY), Sub(nb.maxX, nb.minX), Sub(nb.maxY, nb.minY))

resizeOrigin(handle, ib) ==
    Pt(IF HasW(handle) THEN ib.maxX ELSE ib.minX, IF HasN(handle) THEN ib.maxY ELSE ib.minY)

\* origin + (v - origin) * scale
About(o, v, k) == Add(o, Mul(Sub(v, o), k))

AboutPoints(points, origin, scale) ==
    [i \in 1..Len(points) |->
        Pt(About(origin.x, points[i].x, scale.x), About(origin.y, points[i].y, scale.y))]

AboutBox(b, origin, scale) ==
    Box(About(origin.x, b.minX, scale.x), About(origin.y, b.minY, scale.y),
        About(origin.x, b.maxX, scale.x), About(origin.y, b.maxY, scale.y))

\* one element of the collection remapped from its gesture-start snapshot
resizeElement(el, initialEl, origin, scale) ==
    IF initialEl.type = "raster" THEN el
    ELSE IF initialEl.type = "path" /\ Len(initialEl.pathData) > 0 /\ initialEl.bounds # Null THEN
        [el EXCEPT
            !.points = AboutPoints(initialEl.points, origin, scale),
            !.pathData = transformPathData(initialEl.pathData, scale.x, scale.y,
                                           Pt(Mul(origin.x, Sub(R(1), scale.x)),
                                              Mul(origin.y, Sub(R(1), scale.y)))),
            !.bounds = SwapY(SwapX(AboutBox(initialEl.bounds, origin, scale)))]
    ELSE [el EXCEPT !.points = AboutPoints(initialEl.points, origin, scale)]

\* each tick remapping the element as the previous tick left it
resizeEachCumulative(prev, initialElements, origin, scale) ==
    [i \in 1..Len(prev) |->
        IF ~HasId(initialElements, prev[i].id) THEN prev[i]
        ELSE resizeElement(prev[i], prev[i], origin, scale)]

resizeEach(prev, initialElements, origin, scale) ==
    [i \in 1..Len(prev) |->
        IF ~HasId(initialElements, prev[i].id) THEN prev[i]
        ELSE resizeElement(prev[i], LastWithId(initialElements, prev[i].id), origin, scale)]

resizeElements(prev, rs, currentPoint, shiftKey) ==
    resizeEach(prev, rs.initialElements, resizeOrigin(rs.handle, rs.initialSelectionBounds),
               resizeScale(rs.initialSelectionBounds,
                           resizeBounds(rs.handle, rs.initialSelectionBounds, currentPoint, shiftKey)))

\* JSON.parse(JSON.stringify(el)): a number that is not finite is written as
\* null, which the resize arithmetic then reads as 0
JsonNum(a) == IF isFinite(a) THEN a ELSE R(0)

JsonBox(b) == IF b = Null THEN Null
              ELSE Box(JsonNum(b.minX), JsonNum(b.minY), JsonNum(b.maxX), JsonNum(b.maxY))

JsonClone(el) ==
    [el EXCEPT !.points = [i \in 1..Len(el.points) |-> Pt(JsonNum(el.points[i].x), JsonNum(el.points[i].y))],
               !.bounds = JsonBox(el.bounds),
               !.pathData = [i \in 1..Len(el.pathData) |->
                                Cmd(el.pathData[i].cmd, MapSeq(el.pathData[i].args, JsonNum))]]

\* the pen stroke kept on pointer-up: every 4th sample and the last one
SimplifyThreshold == 20

SimplifyStride == 4

\* the simplification with the last point appended in every case
simplifyPointsAppendLast(points) ==
    LET Keep(i) == (i - 1) % SimplifyStride = 0
        kept == SelectSeq(Indices(points), Keep)
    IN  [k \in 1..(Len(kept) + 1) |-> IF k <= Len(kept) THEN points[kept[k]] ELSE points[Len(points)]]

simplifyPoints(points) ==
    LET Keep(i) == (i - 1) % SimplifyStride = 0 \/ i = Len(points)
        kept == SelectSeq(Indices(points), Keep)
    IN  [k \in 1..Len(kept) |-> points[kept[k]]]

finalElement(drawingElement) ==
    IF drawingElement.type = "pen" /\ Len(drawingElement.points) > SimplifyThreshold
    THEN [drawingElement EXCEPT !.points = simplifyPoints(drawingElement.points)]
    ELSE drawingElement

marqueeBox(marquee) ==
    Box(Min(marquee.start.x, marquee.end.x), Min(marquee.start.y, marquee.end.y),
        Max(marquee.start.x, marquee.end.x), Max(marquee.start.y, marquee.end.y))

\* the center test with the border counted as inside
InsideOrOnBorder(c, b) == Ge(c.x, b.minX) /\ Le(c.x, b.maxX) /\ Ge(c.y, b.minY) /\ Le(c.y, b.maxY)

StrictlyInside(c, b) == Gt(c.x, b.minX) /\ Lt(c.x, b.maxX) /\ Gt(c.y, b.minY) /\ Lt(c.y, b.maxY)

idsIn(els, b) ==
    {els[i].id : i \in {k \in 1..Len(els) : StrictlyInside(getElementCenter(els[k]), b)}}

\* identities of the elements whose center is strictly inside the marquee
idsInMarquee(els, marquee) == idsIn(els, marqueeBox(marquee))

\* ------------------------------------------------------------- bitmap cache (render.ts)

\* getImageFromCache(src, onLoadCallback): the cache after the call, whether a
\* load was started, and whether the image is returned (null otherwise).
\* onLoadCallback is TRUE when a callback is passed.
\* the cache with a new load started for a key whose load had failed
getImageFromCacheRetrying(cache, src, onLoadCallback) ==
    IF cache[src] = Null \/ cache[src].status = "error"
    THEN [cache |-> [cache EXCEPT ![src] = [status |-> "loading", onLoad |-> onLoadCallback]],
          started |-> TRUE, image |-> FALSE]
    ELSE [cache |-> cache, started |-> FALSE, image |-> cache[src].status = "loaded"]

getImageFromCache(cache, src, onLoadCallback) ==
    IF cache[src] = Null
    THEN [cache |-> [cache EXCEPT ![src] = [status |-> "loading", onLoad |-> onLoadCallback]],
          started |-> TRUE, image |-> FALSE]
    ELSE [cache |-> cache, started |-> FALSE, image |-> cache[src].status = "loaded"]

\* drawElement, case 'raster': nothing without an imageUrl; drawImage iff the
\* cache returns the image and the element has bounds
drawRaster(cache, imageUrl, bounds, forceRender) ==
    IF imageUrl = "" THEN [cache |-> cache, started |-> FALSE, image |-> FALSE]
    ELSE [getImageFromCache(cache, imageUrl, forceRender) EXCEPT
             !.image = @ /\ bounds # Null]

\* image.onload
onload(entry) == [entry EXCEPT !.status = "loaded"]

\* image.onerror
onerror(entry) == [entry EXCEPT !.status = "error"]

\* ------------------------------------------------------------- inputs and bounds

Tools == {"select", "pen", "line", "rectangle", "circle", "pan", "eraser", "text"}

\* App's initial style (light theme)
ActiveStyle == Style("#111827", "transparent", R(3), R(24))

AssetStyle == Style("#111827", "transparent", R(2), R(0))

\* Collections an external whole-collection replacement may install.
SceneShapes ==
    << Elem(1, "rectangle", <<P(20, 20), P(60, 40)>>, ActiveStyle),
       [Elem(2, "text", <<P(100, 20)>>, [ActiveStyle EXCEPT !.fillColor = "#111827"])
            EXCEPT !.text = "Text"] >>

ScenePaths ==
    << [Elem(3, "path", <<>>, AssetStyle) EXCEPT
            !.pathData = <<Cmd("M", <<R(20), R(20)>>), Cmd("L", <<R(60), R(20)>>),
                           Cmd("L", <<R(60), R(40)>>), Cmd("Z", <<>>)>>,
            !.bounds = Box(R(20), R(20), R(60), R(40))],
       [Elem(4, "path", <<>>, AssetStyle) EXCEPT
            !.pathData = <<Cmd("m", <<R(100), R(20)>>), Cmd("l", <<R(40), R(0)>>),
                           Cmd("v", <<R(20)>>), Cmd("z", <<>>)>>,
            !.bounds = Box(R(100), R(20), R(140), R(40))] >>

Scenes == {SceneShapes, ScenePaths}

\* A rectangle twice as wide as high, a raster image (as handleSendMessage
\* builds one) and a horizontal line, whose bounds have no height.
SceneGroup ==
    << Elem(5, "rectangle", <<P(20, 20), P(60, 40)>>, ActiveStyle),
       [Elem(6, "raster", <<>>, Style("transparent", "transparent", R(0), R(0))) EXCEPT
            !.bounds = Box(R(100), R(20), R(140), R(40)),
            !.imageUrl = "data:image/png;base64,A"],
       Elem(7, "line", <<P(20, 80), P(60, 80)>>, ActiveStyle) >>

ResizeScenes == {SceneGroup}

\* Pointer-down positions for the group scene: inside the rectangle, on its
\* south-east and east handles, inside the raster, on its south-east handle,
\* on the line and on its east end, and on empty canvas.
ResizePoints == {P(50, 25), P(60, 40), P(60, 30), P(120, 30), P(140, 40), P(40, 80), P(60, 80),
                 P(200, 100)}

\* Positions a pressed pointer moves to in the group scene; (60, 40) is the
\* rectangle's south-east corner, where its handles leave its bounds as they are.
ResizeMoves == {P(10, 10), P(40, 10), P(100, 20), P(20, 80), P(221, 120), P(100, 50), P(60, 40)}

\* Pointer positions (plane coordinates): inside the left element, on its
\* south-east corner, on the right element's north-west corner, inside the
\* right element, and on empty canvas.
PointerPoints == {P(50, 25), P(60, 40), P(100, 20), P(120, 30), P(200, 100)}

\* Positions a pressed pointer moves to.
MovePoints == {P(10, 10), P(50, 25), P(120, 30)}

\* The bitmap keys (image URLs) raster elements refer to.
ImageKeys == {"data:image/png;base64,A", "data:image/png;base64,B"}

\* draw calls on raster elements
MaxDraws == 4

\* Time between two pointer-downs, in ms: within and beyond the double-click interval.
QuickGap == 100

SlowGap == 400

DoubleClickMs == 300

StartClock == 1000

\* Bounds of the exploration: pointer-downs, pointer-moves,
\* tool changes, whole-collection replacements.
MaxClicks == 2

MaxMoves == 1

\* pointer-moves while the tool stays the select tool
MaxSelectMoves == 2

\* pointer-moves in the group scene
MaxResizeMoves == 2

\* samples of one sweep of the pointer while drawing
MaxPenMoves == 20

\* the first samples of the sweep may leave the row of the elements
SweepChoices == 2

\* Pointer-down positions while drawing: inside the left element, inside the
\* right element, on empty canvas.
DrawPoints == {P(50, 25), P(120, 30), P(200, 100)}

\* The k-th sample of the sweep: the pointer moves right by 5 per sample along
\* the row y = 25, which crosses the left element.
SweepAt(k) == {P(15 + 5 * k, y) : y \in IF k <= SweepChoices THEN {25, 100} ELSE {25}}

MaxToolChanges == 1

MaxReplaces == 1

\* ------------------------------------------------------------- state

VARIABLES
    state,              \* useHistoryState: [history, index]
    tool,               \* App: the active tool
    style,              \* App: the active style
    selectedElementIds, \* App: the selection
    editingElementId,   \* App: the text element being edited, or NoId
    drawingElement,     \* Canvas: the element being drawn, or Null
    marquee,            \* Canvas: [start, end] or Null
    resizingState,      \* Canvas: the resize context, or Null
    dragStateRef,       \* Canvas ref: none / drawing / draggingSelection / resizing / marquee
    lastDragPointRef,   \* Canvas ref: the previous drag position, or Null
    lastClickTimeRef,   \* Canvas ref: time of the previous handled pointer-down
    listening,          \* whether the window mousemove/mouseup listeners are registered
    now,                \* Date.now()
    pressed,            \* the primary button is held down
    clicks,             \* pointer-downs so far
    moves,              \* pointer-moves so far
    toolChanges,        \* tool changes so far
    replaces,           \* whole-collection replacements so far
    lastOp,             \* the last event and its inputs
    gesture,            \* the collection before and after the last drag/resize gesture
    imageCache,         \* render.ts: per bitmap key, no entry (Null) or [status, onLoad]
    renderLog,          \* per key the loads started and the callback calls; the last draw
    call                \* the last application of a function: its name, arguments, result

vars == <<state, tool, style, selectedElementIds, editingElementId, drawingElement, marquee,
          resizingState, dragStateRef, lastDragPointRef, lastClickTimeRef, listening,
          now, pressed, clicks, moves, toolChanges, replaces, lastOp, gesture,
          imageCache, renderLog, call>>

renderVars == <<imageCache, renderLog>>

canvasVars ==
    <<state, tool, style, selectedElementIds, editingElementId, drawingElement, marquee,
      resizingState, dragStateRef, lastDragPointRef, lastClickTimeRef, listening,
      now, pressed, clicks, moves, toolChanges, replaces, lastOp, gesture>>

elements == current(state)

\* the last event: its name, its pointer position, its modifier key, and for a
\* pointer-down whether it came within the double-click interval
Op(name, p, shiftKey, quick) == [op |-> name, p |-> p, shift |-> shiftKey, quick |-> quick]

\* nothing drawn yet
NoDraws ==
    [loads |-> [k \in ImageKeys |-> 0], calls |-> [k \in ImageKeys |-> 0], draws |-> 0,
     last |-> [key |-> "", blit |-> FALSE]]

NoGesture == [phase |-> "none", before |-> Null, after |-> Null]

\* no geometry function to apply
NoCall == [fn |-> "none", done |-> TRUE]

Init ==
    /\ state = [history |-> << <<>> >>, index |-> 0]
    /\ tool = "select"
    /\ style = ActiveStyle
    /\ selectedElementIds = {}
    /\ editingElementId = NoId
    /\ drawingElement = Null
    /\ marquee = Null
    /\ resizingState = Null
    /\ dragStateRef = "none"
    /\ lastDragPointRef = Null
    /\ lastClickTimeRef = 0
    /\ listening = FALSE
    /\ now = StartClock
    /\ pressed = FALSE
    /\ clicks = 0
    /\ moves = 0
    /\ toolChanges = 0
    /\ replaces = 0
    /\ lastOp = Op("init", Null, FALSE, FALSE)
    /\ gesture = NoGesture
    /\ imageCache = [k \in ImageKeys |-> Null]
    /\ renderLog = NoDraws
    /\ call = NoCall

\* The effect that registers the window listeners runs after a render in which
\* handleMouseMove or handleMouseUp changed; it registers them iff the drag
\* state is not 'none' at that moment, and removes the old ones either way.
Effect(rerender, dragAfter) == IF rerender THEN dragAfter # "none" ELSE listening

\* ------------------------------------------------------------- handlers
\* A handler maps the component state it sees (the values of the last render
\* and the refs) to the state after its updates are flushed.  rerender records
\* whether any update changed a dependency of handleMouseMove/handleMouseUp.

View ==
    [state |-> state, tool |-> tool, style |-> style, sel |-> selectedElementIds, editing |-> editingElementId,
     drawing |-> drawingElement, marquee |-> marquee, resizing |-> resizingState,
     drag |-> dragStateRef, lastDrag |-> lastDragPointRef, lastClick |-> lastClickTimeRef,
     rerender |-> FALSE]

\* updateElements(updater, overwrite): always a new canvas state, so App renders
updateElements(c, newElements, overwrite) ==
    [c EXCEPT !.state = setState(c.state, newElements, overwrite), !.rerender = TRUE]

FirstWithId(els, id) ==
    els[CHOOSE i \in 1..Len(els) : els[i].id = id /\ \A j \in 1..(i - 1) : els[j].id # id]

editIfText(c, els, elementId) ==
    IF HasId(els, elementId) /\ FirstWithId(els, elementId).type = "text"
    THEN [c EXCEPT !.editing = elementId, !.rerender = (c.editing # elementId)]
    ELSE c

\* App.handleElementDoubleClick: elements.find(el => el.id === elementId)
handleElementDoubleClick(c, elementId) == editIfText(c, current(c.state), elementId)

newTextElement(point, id, style0) ==
    [Elem(id, "text", <<point>>, [style0 EXCEPT !.fillColor = style0.strokeColor])
        EXCEPT !.text = "Text"]

\* App.handleTextCreate: append, edit it, back to the select tool
handleTextCreate(c, point, id) ==
    [updateElements(c, Append(current(c.state), newTextElement(point, id, c.style)), FALSE)
        EXCEPT !.editing = id, !.tool = "select"]

withText(els, id, newText) ==
    [i \in 1..Len(els) |-> IF els[i].id = id THEN [els[i] EXCEPT !.text = newText] ELSE els[i]]

withoutId(els, id) == LET Other(el) == el.id # id IN SelectSeq(els, Other)

\* { ...style, ...newStyle }: the fields newStyle has replace those of style
merged(style0, newStyle) ==
    [k \in DOMAIN style0 |-> IF k \in DOMAIN newStyle THEN newStyle[k] ELSE style0[k]]

restyled(els, sel, newStyle) ==
    [i \in 1..Len(els) |->
        IF els[i].id \in sel THEN [els[i] EXCEPT !.style = merged(@, newStyle)] ELSE els[i]]

\* App.handleStyleChange: the active style, and the style of the selection
handleStyleChange(c, newStyle) ==
    IF Cardinality(c.sel) > 0
    THEN [updateElements(c, restyled(current(c.state), c.sel, newStyle), TRUE)
            EXCEPT !.style = merged(c.style, newStyle)]
    ELSE [c EXCEPT !.style = merged(c.style, newStyle), !.rerender = TRUE]

\* the update that also removes the lines that refer to the removed element
handleTextUpdateCascading(c, id, newText) ==
    IF newText = "" THEN
        LET Unattached(el) == el.id # id /\ el.startElementId # id /\ el.endElementId # id
        IN  updateElements(updateElements(c, withText(current(c.state), id, newText), FALSE),
                           SelectSeq(current(c.state), Unattached), FALSE)
    ELSE updateElements(c, withText(current(c.state), id, newText), FALSE)

\* App.handleTextUpdate: the text is written, and then an element left with
\* an empty text is removed by a second update (the texts entered here have
\* no surrounding blanks, so trim() changes nothing)
handleTextUpdate(c, id, newText) ==
    IF newText = "" THEN
        updateElements(updateElements(c, withText(current(c.state), id, newText), FALSE),
                       withoutId(withText(current(c.state), id, newText), id), FALSE)
    ELSE updateElements(c, withText(current(c.state), id, newText), FALSE)

\* App.handleFinishEditingText, the textarea mounted
handleFinishEditingText(c, value) ==
    IF c.editing = NoId THEN c
    ELSE [handleTextUpdate(c, c.editing, value) EXCEPT !.editing = NoId, !.sel = {}]

resizingOver(c, handle, selected, bounds) ==
    [c EXCEPT !.resizing = [handle |-> handle,
                            initialSelectionBounds |-> bounds,
                            initialElements |-> MapSeq(selected, JsonClone),
                            aspectRatio |-> Div(Sub(bounds.maxX, bounds.minX),
                                                Sub(bounds.maxY, bounds.minY))],
              !.drag = "resizing",
              !.rerender = TRUE]

resizingOf(c, handle, selected) == resizingOver(c, handle, selected, getElementsBounds(selected))

\* handleMouseDown, a handle was hit
startResizing(c, handle) == resizingOf(c, handle, SelectedOf(current(c.state), c.sel))

\* the select branch with the modifier key ignored on an element
selectDownReplacing(c, clickedElement, startPoint, shiftKey) ==
    IF clickedElement # Null THEN
        [c EXCEPT !.sel = IF clickedElement.id \notin c.sel THEN {clickedElement.id} ELSE c.sel,
                  !.rerender = (clickedElement.id \notin c.sel),
                  !.drag = "draggingSelection",
                  !.lastDrag = startPoint]
    ELSE
        [c EXCEPT !.sel = IF shiftKey THEN c.sel ELSE {},
                  !.marquee = [start |-> startPoint, end |-> startPoint],
                  !.drag = "marquee",
                  !.rerender = TRUE]

\* the select branch with the modifier key ignored on empty canvas
selectDownClearing(c, clickedElement, startPoint, shiftKey) ==
    IF clickedElement # Null THEN
        [c EXCEPT !.sel = IF clickedElement.id \notin c.sel
                          THEN (IF shiftKey THEN c.sel ELSE {}) \cup {clickedElement.id}
                          ELSE c.sel,
                  !.rerender = (clickedElement.id \notin c.sel),
                  !.drag = "draggingSelection",
                  !.lastDrag = startPoint]
    ELSE
        [c EXCEPT !.sel = {},
                  !.marquee = [start |-> startPoint, end |-> startPoint],
                  !.drag = "marquee",
                  !.rerender = TRUE]

\* handleMouseDown, select tool
selectDown(c, clickedElement, startPoint, shiftKey) ==
    IF clickedElement # Null THEN
        [c EXCEPT !.sel = IF clickedElement.id \notin c.sel
                          THEN (IF shiftKey THEN c.sel ELSE {}) \cup {clickedElement.id}
                          ELSE c.sel,
                  !.rerender = (clickedElement.id \notin c.sel),
                  !.drag = "draggingSelection",
                  !.lastDrag = startPoint]
    ELSE
        [c EXCEPT !.sel = IF shiftKey THEN c.sel ELSE {},
                  !.marquee = [start |-> startPoint, end |-> startPoint],
                  !.drag = "marquee",
                  !.rerender = TRUE]

\* the element started with the style App starts with
newElementInitialStyle(type, startPoint, id, style0) ==
    Elem(id, type, <<startPoint, startPoint>>, ActiveStyle)

newElement(type, startPoint, id, style0) == Elem(id, type, <<startPoint, startPoint>>, style0)

\* the start of an element with the reference recorded and the point left as it is
startDrawingUnsnapped(c, clickedElement, startPoint, id) ==
    [c EXCEPT !.drag = "drawing",
              !.drawing = IF c.tool = "line" /\ clickedElement # Null
                          THEN [newElement(c.tool, startPoint, id, c.style) EXCEPT
                                   !.startElementId = clickedElement.id]
                          ELSE newElement(c.tool, startPoint, id, c.style),
              !.rerender = TRUE]

\* handleMouseDown, every other tool
startDrawing(c, clickedElement, startPoint, id) ==
    [c EXCEPT !.drag = "drawing",
              !.drawing = IF c.tool = "line" /\ clickedElement # Null
                          THEN [newElement(c.tool, startPoint, id, c.style) EXCEPT
                                   !.startElementId = clickedElement.id,
                                   !.points = <<getAttachmentPoint(clickedElement, startPoint),
                                                startPoint>>]
                          ELSE newElement(c.tool, startPoint, id, c.style),
              !.rerender = TRUE]

\* the dispatch with the double-click test ahead of the handle test
downOnTextFirst(c, startPoint, shiftKey, clickTime, isDoubleClick, handle, clickedElement) ==
    IF isDoubleClick /\ clickedElement # Null /\ clickedElement.type = "text"
        THEN handleElementDoubleClick(c, clickedElement.id)
    ELSE IF handle # NoHandle THEN startResizing(c, handle)
    ELSE IF c.tool = "text" THEN handleTextCreate(c, startPoint, clickTime)
    ELSE IF c.tool = "select" THEN selectDown(c, clickedElement, startPoint, shiftKey)
    ELSE startDrawing(c, clickedElement, startPoint, clickTime)

\* the dispatch with the tool tests ahead of the double-click test
downOnToolFirst(c, startPoint, shiftKey, clickTime, isDoubleClick, handle, clickedElement) ==
    IF handle # NoHandle THEN startResizing(c, handle)
    ELSE IF c.tool = "text" THEN handleTextCreate(c, startPoint, clickTime)
    ELSE IF c.tool = "select" THEN selectDown(c, clickedElement, startPoint, shiftKey)
    ELSE IF isDoubleClick /\ clickedElement # Null /\ clickedElement.type = "text"
        THEN handleElementDoubleClick(c, clickedElement.id)
    ELSE startDrawing(c, clickedElement, startPoint, clickTime)

\* handleMouseDown after the pan check; c already holds the new lastClickTimeRef
downOn(c, startPoint, shiftKey, clickTime, isDoubleClick, handle, clickedElement) ==
    IF handle # NoHandle THEN startResizing(c, handle)
    ELSE IF isDoubleClick /\ clickedElement # Null /\ clickedElement.type = "text"
        THEN handleElementDoubleClick(c, clickedElement.id)
    ELSE IF c.tool = "text" THEN handleTextCreate(c, startPoint, clickTime)
    ELSE IF c.tool = "select" THEN selectDown(c, clickedElement, startPoint, shiftKey)
    ELSE startDrawing(c, clickedElement, startPoint, clickTime)

handleMouseDown(c, startPoint, shiftKey, clickTime) ==
    IF c.tool = "pan" THEN c
    ELSE downOn([c EXCEPT !.lastClick = clickTime], startPoint, shiftKey, clickTime,
                clickTime - c.lastClick < DoubleClickMs,
                getHandleAtPoint(current(c.state), c.sel, startPoint),
                getElementAtPoint(current(c.state), startPoint))

\* handleMouseMove while drawing: a pen appends, the others move their last point
drawnTo(el, currentPoint) ==
    IF el.type = "pen" THEN [el EXCEPT !.points = Append(el.points, currentPoint)]
    ELSE IF Len(el.points) > 0 THEN [el EXCEPT !.points[Len(el.points)] = currentPoint]
    ELSE el

handleMouseMove(c, currentPoint, shiftKey) ==
    IF c.tool = "pan" /\ c.drag = "none" THEN c
    ELSE IF c.drag = "resizing" /\ c.resizing # Null THEN
        updateElements(c, resizeElements(current(c.state), c.resizing, currentPoint, shiftKey), TRUE)
    ELSE IF c.drag = "draggingSelection" /\ c.lastDrag # Null /\ Cardinality(c.sel) > 0 THEN
        [updateElements(c, dragElements(current(c.state), c.sel,
                                        Sub(currentPoint.x, c.lastDrag.x),
                                        Sub(currentPoint.y, c.lastDrag.y)), TRUE)
            EXCEPT !.lastDrag = currentPoint]
    ELSE IF c.drag = "marquee" /\ c.marquee # Null THEN
        [c EXCEPT !.marquee.end = currentPoint, !.rerender = TRUE]
    ELSE IF c.drag = "drawing" /\ c.drawing # Null THEN
        [c EXCEPT !.drawing = drawnTo(c.drawing, currentPoint), !.rerender = TRUE]
    ELSE c

\* getElementCenter raises for an element of the filter in handleMouseUp: the
\* exception leaves the handler before any of its setters
centerThrows(els) == \E i \in 1..Len(els) : rawBoundsThrow(els[i])

handleMouseUp(c, shiftKey) ==
    IF c.drag = "none" THEN c
    ELSE IF c.drag = "resizing" THEN
        [updateElements(c, current(c.state), FALSE) EXCEPT !.resizing = Null, !.drag = "none"]
    ELSE IF c.drag = "draggingSelection" THEN
        [updateElements(c, current(c.state), FALSE) EXCEPT !.lastDrag = Null, !.drag = "none"]
    ELSE IF c.drag = "marquee" /\ c.marquee # Null /\ centerThrows(current(c.state)) THEN c
    ELSE IF c.drag = "marquee" /\ c.marquee # Null THEN
        [c EXCEPT !.sel = (IF shiftKey THEN c.sel ELSE {}) \cup idsInMarquee(current(c.state), c.marquee),
                  !.marquee = Null,
                  !.rerender = TRUE,
                  !.drag = "none"]
    ELSE IF c.drag = "drawing" /\ c.drawing # Null THEN
        [updateElements(c, Append(current(c.state), finalElement(c.drawing)), FALSE)
            EXCEPT !.drawing = Null, !.drag = "none"]
    ELSE [c EXCEPT !.drag = "none"]

\* the values a handler leaves behind, and the listener effect after the render
Flush(n) ==
    /\ state' = n.state
    /\ tool' = n.tool
    /\ style' = n.style
    /\ selectedElementIds' = n.sel
    /\ editingElementId' = n.editing
    /\ drawingElement' = n.drawing
    /\ marquee' = n.marquee
    /\ resizingState' = n.resizing
    /\ dragStateRef' = n.drag
    /\ lastDragPointRef' = n.lastDrag
    /\ lastClickTimeRef' = n.lastClick
    /\ listening' = Effect(n.rerender, n.drag)

\* ------------------------------------------------------------- events

\* a drag or resize gesture starts: remember the collection it starts from
GestureAtDown(n) ==
    IF n.drag \in {"draggingSelection", "resizing"} /\ n.drag # dragStateRef
    THEN [phase |-> "active", before |-> current(n.state), after |-> Null]
    ELSE NoGesture

FlushDown(n) == Flush(n) /\ gesture' = GestureAtDown(n)

\* a drag or resize gesture ends: remember the collection it leaves
GestureAtUp(n) ==
    IF gesture.phase = "active" /\ dragStateRef \in {"draggingSelection", "resizing"}
    THEN [gesture EXCEPT !.phase = "done", !.after = current(n.state)]
    ELSE NoGesture

FlushUp(n) == Flush(n) /\ gesture' = GestureAtUp(n)

controllerVars ==
    <<state, tool, style, selectedElementIds, editingElementId, drawingElement, marquee,
      resizingState, dragStateRef, lastDragPointRef, lastClickTimeRef, listening>>

\* mousedown on the canvas, primary button (handleMouseDown reads shiftKey
\* with the select tool only)
MouseDownWithin(p, shiftKey, gap, limit) ==
    /\ UNCHANGED <<renderVars, call>>
    /\ ~pressed
    /\ clicks < limit
    /\ shiftKey => tool = "select"
    /\ FlushDown(handleMouseDown(View, p, shiftKey, now + gap))
    /\ now' = now + gap
    /\ pressed' = TRUE
    /\ clicks' = clicks + 1
    /\ lastOp' = Op("mouseDown", p, shiftKey, now + gap - lastClickTimeRef < DoubleClickMs)
    /\ UNCHANGED <<moves, toolChanges, replaces>>

MouseDown(p, shiftKey, gap) == MouseDownWithin(p, shiftKey, gap, MaxClicks)

\* mousemove in the window, with the button down or with the window listener
\* registered; it reaches handleMouseMove only through that listener (which
\* reads shiftKey while resizing only)
MouseMove(p, shiftKey, limit) ==
    /\ UNCHANGED <<renderVars, call>>
    /\ moves < limit
    /\ pressed \/ listening
    /\ shiftKey => listening /\ dragStateRef = "resizing"
    /\ moves' = moves + 1
    /\ IF listening THEN Flush(handleMouseMove(View, p, shiftKey))
       ELSE UNCHANGED controllerVars
    /\ lastOp' = Op("mouseMove", p, shiftKey, FALSE)
    /\ UNCHANGED <<now, pressed, clicks, toolChanges, replaces, gesture>>

\* mouseup anywhere in the window; it reaches handleMouseUp only through the
\* window listener (which reads shiftKey for a marquee only)
MouseUp(shiftKey) ==
    /\ UNCHANGED <<renderVars, call>>
    /\ pressed
    /\ shiftKey => listening /\ dragStateRef = "marquee"
    /\ pressed' = FALSE
    /\ IF listening
       THEN FlushUp(handleMouseUp(View, shiftKey))
       ELSE UNCHANGED controllerVars /\ UNCHANGED gesture
    /\ lastOp' = Op("mouseUp", Null, shiftKey, FALSE)
    /\ UNCHANGED <<now, clicks, moves, toolChanges, replaces>>

\* a toolbar button
SetTool(t) ==
    /\ UNCHANGED <<renderVars, call>>
    /\ ~pressed
    /\ toolChanges < MaxToolChanges
    /\ clicks < MaxClicks
    /\ t # tool
    /\ tool' = t
    /\ toolChanges' = toolChanges + 1
    /\ listening' = Effect(TRUE, dragStateRef)
    /\ lastOp' = Op("setTool", Null, FALSE, FALSE)
    /\ gesture' = NoGesture
    /\ UNCHANGED <<state, style, selectedElementIds, editingElementId, drawingElement, marquee,
                   resizingState, dragStateRef, lastDragPointRef, lastClickTimeRef,
                   now, pressed, clicks, moves, replaces>>

\* a control of the style panel
SetStyle(newStyle) ==
    /\ UNCHANGED <<renderVars, call>>
    /\ merged(style, newStyle) # style
    /\ Flush(handleStyleChange(View, newStyle))
    /\ lastOp' = Op("setStyle", Null, FALSE, FALSE)
    /\ gesture' = NoGesture
    /\ UNCHANGED <<now, pressed, clicks, moves, toolChanges, replaces>>

\* the Undo button (disabled unless canUndo)
Undo ==
    /\ UNCHANGED <<renderVars, call>>
    /\ ~pressed
    /\ canUndo(state)
    /\ state' = undo(state)
    /\ listening' = Effect(TRUE, dragStateRef)
    /\ lastOp' = Op("undo", Null, FALSE, FALSE)
    /\ gesture' = IF gesture.phase = "done" THEN [gesture EXCEPT !.phase = "undone"] ELSE NoGesture
    /\ UNCHANGED <<tool, style, selectedElementIds, editingElementId, drawingElement, marquee,
                   resizingState, dragStateRef, lastDragPointRef, lastClickTimeRef,
                   now, pressed, clicks, moves, toolChanges, replaces>>

\* the Redo button (disabled unless canRedo)
Redo ==
    /\ UNCHANGED <<renderVars, call>>
    /\ ~pressed
    /\ canRedo(state)
    /\ state' = redo(state)
    /\ listening' = Effect(TRUE, dragStateRef)
    /\ lastOp' = Op("redo", Null, FALSE, FALSE)
    /\ gesture' = IF gesture.phase = "undone" THEN [gesture EXCEPT !.phase = "redone"] ELSE NoGesture
    /\ UNCHANGED <<tool, style, selectedElementIds, editingElementId, drawingElement, marquee,
                   resizingState, dragStateRef, lastDragPointRef, lastClickTimeRef,
                   now, pressed, clicks, moves, toolChanges, replaces>>

\* the vector edit of an AI reply: the whole collection replaced, selection cleared
ExternalReplaceDuring(scene, limit) ==
    /\ UNCHANGED <<renderVars, call>>
    /\ replaces < limit
    /\ state' = setState(state, scene, FALSE)
    /\ selectedElementIds' = {}
    /\ replaces' = replaces + 1
    /\ listening' = Effect(TRUE, dragStateRef)
    /\ lastOp' = Op("replace", Null, FALSE, FALSE)
    /\ gesture' = NoGesture
    /\ UNCHANGED <<tool, style, editingElementId, drawingElement, marquee, resizingState,
                   dragStateRef, lastDragPointRef, lastClickTimeRef, now, pressed, clicks,
                   moves, toolChanges>>

\* the reply arrives while no pointer button is held
ExternalReplace(scene) == ~pressed /\ ExternalReplaceDuring(scene, MaxReplaces)

DrawOf(r, imageUrl) ==
    /\ imageCache' = r.cache
    /\ renderLog' = [renderLog EXCEPT
                        !.loads = IF r.started THEN [@ EXCEPT ![imageUrl] = @ + 1] ELSE @,
                        !.draws = @ + 1,
                        !.last = [key |-> imageUrl, blit |-> r.image]]

\* drawElement on a raster element: from the canvas redraw (forceRender is
\* passed) or from renderElementsToDataURL and the export (it is not)
Draw(imageUrl, forceRender) ==
    /\ renderLog.draws < MaxDraws
    /\ DrawOf(drawRaster(imageCache, imageUrl, ZeroBox, forceRender), imageUrl)
    /\ UNCHANGED <<canvasVars, call>>

\* the browser finishes loading the image of a key: image.onload runs
ImageLoaded(k) ==
    /\ imageCache[k] # Null
    /\ imageCache[k].status = "loading"
    /\ imageCache' = [imageCache EXCEPT ![k] = onload(@)]
    /\ renderLog' = IF imageCache[k].onLoad THEN [renderLog EXCEPT !.calls[k] = @ + 1] ELSE renderLog
    /\ UNCHANGED <<canvasVars, call>>

\* the browser fails to load the image of a key: image.onerror runs
ImageFailed(k) ==
    /\ imageCache[k] # Null
    /\ imageCache[k].status = "loading"
    /\ imageCache' = [imageCache EXCEPT ![k] = onerror(@)]
    /\ UNCHANGED renderLog
    /\ UNCHANGED <<canvasVars, call>>

\* The time since the previous pointer-down decides the double-click test
\* only; before the first pointer-down it decides nothing.
Gaps == IF clicks = 0 THEN {SlowGap} ELSE {QuickGap, SlowGap}

Next ==
    \/ \E p \in PointerPoints, shiftKey \in BOOLEAN, gap \in Gaps : MouseDown(p, shiftKey, gap)
    \/ \E p \in MovePoints, shiftKey \in BOOLEAN : MouseMove(p, shiftKey, MaxMoves)
    \/ \E shiftKey \in BOOLEAN : MouseUp(shiftKey)
    \/ \E t \in Tools : SetTool(t)
    \/ Undo
    \/ Redo
    \/ \E scene \in Scenes : ExternalReplace(scene)

Spec == Init /\ [][Next]_vars

\* The same program while the tool stays the select tool it starts with.
NextSelect ==
    \/ \E p \in PointerPoints, shiftKey \in BOOLEAN, gap \in Gaps : MouseDown(p, shiftKey, gap)
    \/ \E p \in MovePoints, shiftKey \in BOOLEAN : MouseMove(p, shiftKey, MaxSelectMoves)
    \/ \E shiftKey \in BOOLEAN : MouseUp(shiftKey)
    \/ Undo
    \/ Redo
    \/ \E scene \in Scenes : ExternalReplace(scene)

SpecSelect == Init /\ [][NextSelect]_vars

\* The same program, select tool, over the group scene.
NextResize ==
    \/ \E p \in ResizePoints, shiftKey \in BOOLEAN, gap \in Gaps : MouseDown(p, shiftKey, gap)
    \/ \E p \in ResizeMoves, shiftKey \in BOOLEAN : MouseMove(p, shiftKey, MaxResizeMoves)
    \/ \E shiftKey \in BOOLEAN : MouseUp(shiftKey)
    \/ Undo
    \/ Redo
    \/ \E scene \in ResizeScenes : ExternalReplace(scene)

SpecResize == Init /\ [][NextResize]_vars

\* The same program while an element is drawn with one of the four drawing tools.
NextDraw ==
    \/ \E p \in DrawPoints, gap \in Gaps : MouseDown(p, FALSE, gap)
    \/ \E p \in SweepAt(moves + 1) : MouseMove(p, FALSE, MaxPenMoves)
    \/ MouseUp(FALSE)
    \/ \E t \in {"pen", "line", "rectangle", "circle"} : SetTool(t)
    \/ ExternalReplace(SceneShapes)

SpecDraw == Init /\ [][NextDraw]_vars

\* The renderer's bitmap cache under draw calls and load completions.
NextRender ==
    \/ \E imageUrl \in ImageKeys \cup {""}, forceRender \in BOOLEAN : Draw(imageUrl, forceRender)
    \/ \E k \in ImageKeys : ImageLoaded(k)
    \/ \E k \in ImageKeys : ImageFailed(k)

SpecRender == Init /\ [][NextRender]_vars

\* ------------------------------------------------------------- text editing and AI replies

\* An edit reply of the AI whose added element reuses an identity of the collection.
SceneDuplicate ==
    << Elem(1, "rectangle", <<P(20, 20), P(60, 40)>>, ActiveStyle),
       [Elem(1, "text", <<P(100, 20)>>, [ActiveStyle EXCEPT !.fillColor = "#111827"])
            EXCEPT !.text = "Text"] >>

\* A text element and a connector line that starts on its left edge.
SceneConnector ==
    << [Elem(2, "text", <<P(100, 20)>>, [ActiveStyle EXCEPT !.fillColor = "#111827"])
            EXCEPT !.text = "Text"],
       [Elem(8, "line", <<P(100, 32), P(60, 32)>>, ActiveStyle) EXCEPT !.startElementId = 2] >>

\* A rectangle, and above it a path of an AI reply whose points are null and
\* which has no recorded bounds: drawElement draws it from its pathData, its
\* hit test raises a TypeError.
SceneMalformed ==
    << Elem(1, "rectangle", <<P(20, 20), P(60, 40)>>, ActiveStyle),
       [Elem(9, "path", NullPoints, AssetStyle) EXCEPT
            !.pathData = <<Cmd("M", <<R(20), R(20)>>), Cmd("L", <<R(60), R(40)>>)>>] >>

EditScenes == {SceneMalformed, SceneDuplicate, SceneConnector}

\* Pointer-down positions: inside the rectangle, inside the text, on the
\* connector line, and on empty canvas.
EditPoints == {P(50, 25), P(120, 30), P(80, 32), P(200, 100)}

EditMoves == {P(10, 10), P(120, 30)}

\* What the textarea holds when editing ends.
EditTexts == {"", "Text"}

MaxEditClicks == 3

MaxEditMoves == 1

\* the textarea loses focus or Enter is pressed; it is mounted while the
\* element being edited is a text element of the collection
FinishEditing(value) ==
    /\ UNCHANGED <<renderVars, call>>
    /\ editingElementId # NoId
    /\ HasId(elements, editingElementId)
    /\ FirstWithId(elements, editingElementId).type = "text"
    /\ Flush(handleFinishEditingText(View, value))
    /\ lastOp' = Op("finishEditing", Null, FALSE, FALSE)
    /\ gesture' = NoGesture
    /\ UNCHANGED <<now, pressed, clicks, moves, toolChanges, replaces>>

\* The same program with the select, line and text tools, text editing, and
\* the collections of AI replies.
NextEdit ==
    \/ \E p \in EditPoints, gap \in Gaps : MouseDownWithin(p, FALSE, gap, MaxEditClicks)
    \/ \E p \in EditMoves : MouseMove(p, FALSE, MaxEditMoves)
    \/ MouseUp(FALSE)
    \/ \E t \in {"line", "text"} : SetTool(t)
    \/ \E value \in EditTexts : FinishEditing(value)
    \/ \E scene \in EditScenes : ExternalReplace(scene)

SpecEdit == Init /\ [][NextEdit]_vars

\* ------------------------------------------------------------- an AI reply in mid-gesture

\* The reply to an edit request made on the group scene: the identities of the
\* rectangle and of the line are kept ("Preserve original IDs when editing"),
\* their geometry is new, the raster is gone and a rectangle is added.
SceneRegrouped ==
    << Elem(5, "rectangle", <<P(30, 30), P(50, 50)>>, ActiveStyle),
       Elem(7, "line", <<P(30, 90), P(50, 90)>>, ActiveStyle),
       Elem(41, "rectangle", <<P(100, 60), P(120, 70)>>, ActiveStyle) >>

InterruptScenes == {SceneGroup, SceneRegrouped}

\* inside the rectangle of the group scene, on its south-east handle, on the
\* line, and on empty canvas
InterruptPoints == {P(50, 25), P(60, 40), P(40, 80), P(200, 100)}

InterruptMoves == {P(100, 50), P(40, 10)}

MaxInterruptClicks == 2

MaxInterruptMoves == 2

MaxInterruptReplaces == 2

\* The select tool over a collection that an AI reply may replace at any
\* moment: handleSendMessage awaits the reply while the canvas stays live.
NextInterrupt ==
    \/ \E p \in InterruptPoints, gap \in Gaps : MouseDownWithin(p, FALSE, gap, MaxInterruptClicks)
    \/ \E p \in InterruptMoves : MouseMove(p, FALSE, MaxInterruptMoves)
    \/ MouseUp(FALSE)
    \/ \E scene \in InterruptScenes : ExternalReplaceDuring(scene, MaxInterruptReplaces)

SpecInterrupt == Init /\ [][NextInterrupt]_vars

\* ------------------------------------------------------------- drawing with the style panel in use

\* on the rectangle of the shapes scene, on its south-east handle, on empty canvas
SketchPoints == {P(50, 25), P(60, 40), P(200, 100)}

SketchMoves == {P(120, 30), P(220, 120)}

\* what the stroke width control of the style panel sets
StyleChanges == {[strokeWidth |-> R(5)], [strokeWidth |-> R(3)]}

MaxSketchMoves == 2

\* An element is selected with the select tool and another is drawn with a
\* drawing tool, while the style panel changes the active style.
NextSketch ==
    \/ \E p \in SketchPoints, gap \in Gaps : MouseDown(p, FALSE, gap)
    \/ \E p \in SketchMoves : MouseMove(p, FALSE, MaxSketchMoves)
    \/ MouseUp(FALSE)
    \/ \E t \in {"pen", "line", "rectangle", "circle"} : SetTool(t)
    \/ \E newStyle \in StyleChanges : SetStyle(newStyle)
    \/ ExternalReplace(SceneShapes)

SpecSketch == Init /\ [][NextSketch]_vars

\* ------------------------------------------------------------- the geometry functions applied

\* Two overlapping rectangles and a line across the upper one.
SceneStack ==
    << Elem(11, "rectangle", <<P(20, 20), P(60, 40)>>, ActiveStyle),
       Elem(12, "rectangle", <<P(40, 30), P(120, 60)>>, ActiveStyle),
       Elem(13, "line", <<P(20, 50), P(120, 50)>>, ActiveStyle) >>

HitScenes == {SceneShapes, ScenePaths, SceneGroup, SceneStack, SceneMalformed}

HitPoints == {P(x, y) : x \in {0, 30, 50, 65, 100, 120, 145}, y \in {10, 15, 25, 35, 50, 80}}

\* Well-formed path data: lines, horizontal and vertical moves, arcs, curves,
\* fractions and negative numbers, absolute and relative.
PathsWellFormed ==
    { ScenePaths[1].pathData,
      ScenePaths[2].pathData,
      <<Cmd("M", <<R(0), R(0)>>), Cmd("H", <<R(30)>>), Cmd("V", <<R(40)>>),
        Cmd("h", <<R(-10)>>), Cmd("v", <<R(-5), R(7)>>), Cmd("Z", <<>>)>>,
      <<Cmd("M", <<R(10), R(10)>>), Cmd("A", <<R(5), R(8), R(30), R(0), R(1), R(20), R(20)>>),
        Cmd("a", <<R(5), R(8), R(30), R(1), R(0), R(-4), R(6)>>)>>,
      <<Cmd("M", <<R(0), R(0)>>), Cmd("C", <<R(1), R(2), R(3), R(4), R(5), R(6)>>),
        Cmd("q", <<R(1), R(2), R(3), R(4)>>), Cmd("t", <<R(-3), R(9)>>)>>,
      <<Cmd("M", <<<<1, 2>>, <<3, 2>>>>), Cmd("l", <<<<-9, 4>>, R(4), R(0), <<1, 8>>>>)>>,
      <<>> }

\* Path data with an incomplete argument group, or a command with no argument.
PathsMalformed ==
    { <<Cmd("M", <<R(10)>>)>>,
      <<Cmd("M", <<R(0), R(0)>>), Cmd("l", <<R(1), R(2), R(3)>>)>>,
      <<Cmd("M", <<R(0), R(0)>>), Cmd("A", <<R(5), R(8), R(30), R(0), R(1), R(20)>>)>>,
      <<Cmd("M", <<>>), Cmd("L", <<R(4), R(4)>>)>> }

PathInputs == PathsWellFormed \cup PathsMalformed

\* Well-formed path data with a relative step of 0.00000025.
PathsTiny == { <<Cmd("M", <<R(0), R(0)>>), Cmd("l", <<<<1, 4000000>>, R(3)>>)>> }

ScaleInputs == {R(1), R(2), <<1, 2>>, R(-1)}

TranslateInputs == {P(0, 0), P(10, 10), P(-5, -5)}

\* A circle of radius 10 about the origin and one of radius 5 about (50, 50).
SceneCircles ==
    << Elem(21, "circle", <<P(0, 0), P(10, 0)>>, ActiveStyle),
       Elem(22, "circle", <<P(50, 50), P(53, 54)>>, ActiveStyle) >>

ElementPool ==
    Range(SceneShapes) \cup Range(ScenePaths) \cup Range(SceneGroup) \cup Range(SceneStack)
        \cup Range(SceneCircles)

\* Targets of an attachment: the center of the element, and points at whole
\* distances from it in the eight directions and off them.
TargetOffsets ==
    {P(0, 0), P(90, 0), P(100, 0), P(-90, 0), P(0, 30), P(0, -30), P(30, 40), P(-30, 40), P(30, -40),
     P(-6, -8), P(40, 20), P(-40, -20), P(8, 6), P(100, 1)}

\* Elements without usable geometry: no points, a path and a raster without
\* recorded bounds, a text without a position; and elements with less than
\* their variant expects: a circle with one point, a text with no characters.
ElementsDegenerate ==
    { Elem(31, "pen", <<>>, ActiveStyle),
      Elem(32, "rectangle", <<>>, AssetStyle),
      Elem(33, "circle", <<>>, ActiveStyle),
      [Elem(34, "text", <<>>, ActiveStyle) EXCEPT !.text = "Text"],
      [Elem(35, "path", <<>>, AssetStyle) EXCEPT
            !.pathData = <<Cmd("M", <<R(20), R(20)>>), Cmd("L", <<R(60), R(40)>>)>>],
      [Elem(36, "raster", <<>>, Style("transparent", "transparent", R(0), R(0))) EXCEPT
            !.imageUrl = "data:image/png;base64,A"],
      Elem(37, "circle", <<P(50, 50)>>, ActiveStyle),
      Elem(38, "text", <<P(100, 20)>>, ActiveStyle),
      Elem(39, "path", <<P(20, 20), P(60, 40)>>, AssetStyle) }

StrokeWidths == {R(0), R(1), R(3), <<5, 2>>}

BoundsInputs ==
    {[el EXCEPT !.style.strokeWidth = w] :
        el \in ElementPool \cup ElementsDegenerate, w \in StrokeWidths}

MaxGroup == 2

GroupInputs == UNION {[1..n -> ElementPool] : n \in 0..MaxGroup}

\* The applications to make: a function's name and its arguments.
HitCalls ==
    {[fn |-> "getElementAtPoint", done |-> FALSE, elements |-> els, point |-> point] :
        els \in HitScenes, point \in HitPoints}

TransformCalls ==
    {[fn |-> "transformPathData", done |-> FALSE, pathData |-> pathData, scaleX |-> scaleX,
      scaleY |-> scaleY, translate |-> translate] :
        pathData \in PathInputs, scaleX \in ScaleInputs, scaleY \in ScaleInputs,
        translate \in TranslateInputs}

TranslateCalls ==
    {[fn |-> "translatePathData", done |-> FALSE, pathData |-> pathData, d |-> d] :
        pathData \in PathInputs, d \in TranslateInputs}

ThereAndBackCalls ==
    {[fn |-> "thereAndBack", done |-> FALSE, pathData |-> pathData] :
        pathData \in PathInputs \cup PathsTiny}

AttachCalls ==
    {[fn |-> "getAttachmentPoint", done |-> FALSE, element |-> el,
      target |-> Shift(getElementCenter(el), offset.x, offset.y)] :
        el \in ElementPool, offset \in TargetOffsets}

GroupCalls ==
    {[fn |-> "getElementsBounds", done |-> FALSE, elements |-> els] : els \in GroupInputs}

BoundsCalls ==
    {[fn |-> "getElementBounds", done |-> FALSE, element |-> el] : el \in BoundsInputs}

\* The canvas as constructed, and one application to make.
InitGeometry ==
    /\ state = [history |-> << <<>> >>, index |-> 0]
    /\ tool = "select"
    /\ style = ActiveStyle
    /\ selectedElementIds = {}
    /\ editingElementId = NoId
    /\ drawingElement = Null
    /\ marquee = Null
    /\ resizingState = Null
    /\ dragStateRef = "none"
    /\ lastDragPointRef = Null
    /\ lastClickTimeRef = 0
    /\ listening = FALSE
    /\ now = StartClock
    /\ pressed = FALSE
    /\ clicks = 0
    /\ moves = 0
    /\ toolChanges = 0
    /\ replaces = 0
    /\ lastOp = Op("init", Null, FALSE, FALSE)
    /\ gesture = NoGesture
    /\ imageCache = [k \in ImageKeys |-> Null]
    /\ renderLog = NoDraws
    /\ call \in HitCalls \cup TransformCalls \cup TranslateCalls \cup ThereAndBackCalls
                 \cup AttachCalls \cup GroupCalls \cup BoundsCalls

Pending(fn) == call.fn = fn /\ ~call.done

\* the application made: the arguments with the result
Returned(c, result) == [fn |-> c.fn, done |-> TRUE, args |-> c, result |-> result]

HitTest ==
    /\ Pending("getElementAtPoint")
    /\ call' = Returned(call, getElementAtPoint(call.elements, call.point))
    /\ UNCHANGED <<canvasVars, renderVars>>

TransformPath ==
    /\ Pending("transformPathData")
    /\ call' = Returned(call, transformPathData(call.pathData, call.scaleX, call.scaleY,
                                                call.translate))
    /\ UNCHANGED <<canvasVars, renderVars>>

TranslatePath ==
    /\ Pending("translatePathData")
    /\ call' = Returned(call, translatePathData(call.pathData, call.d.x, call.d.y))
    /\ UNCHANGED <<canvasVars, renderVars>>

\* transformPathData(transformPathData(p, 2, 2, {10,10}), 0.5, 0.5, {-5,-5})
ThereAndBack ==
    /\ Pending("thereAndBack")
    /\ call' = Returned(call, transformPathData(
                                  transformPathData(call.pathData, R(2), R(2), P(10, 10)),
                                  <<1, 2>>, <<1, 2>>, P(-5, -5)))
    /\ UNCHANGED <<canvasVars, renderVars>>

Attach ==
    /\ Pending("getAttachmentPoint")
    /\ call' = Returned(call, getAttachmentPoint(call.element, call.target))
    /\ UNCHANGED <<canvasVars, renderVars>>

GroupBounds ==
    /\ Pending("getElementsBounds")
    /\ call' = Returned(call, getElementsBounds(call.elements))
    /\ UNCHANGED <<canvasVars, renderVars>>

\* getRawElementBounds and getElementBounds of the same element
Bounds ==
    /\ Pending("getElementBounds")
    /\ call' = Returned(call, [raw |-> getRawElementBounds(call.element),
                               padded |-> getElementBounds(call.element)])
    /\ UNCHANGED <<canvasVars, renderVars>>

NextGeometry ==
    \/ HitTest
    \/ TransformPath
    \/ TranslatePath
    \/ ThereAndBack
    \/ Attach
    \/ GroupBounds
    \/ Bounds

SpecGeometry == InitGeometry /\ [][NextGeometry]_vars

\* ------------------------------------------------------------- the undo history applied

\* The canvas states that are set.
HistoryValues == {<<>>, SceneShapes, ScenePaths}

\* the longest history built
MaxHistory == 4

historyVars ==
    <<tool, style, selectedElementIds, editingElementId, drawingElement, marquee, resizingState,
      dragStateRef, lastDragPointRef, lastClickTimeRef, listening, now, pressed, clicks,
      moves, toolChanges, replaces, lastOp, gesture>>

\* the last call without the calls before it
Brief(c) == IF c.fn = "none" THEN c ELSE [fn |-> c.fn, done |-> TRUE, arg |-> c.arg, before |-> c.before]

\* the call made: its argument, the history it was made on, and the call before it
Logged(fn, arg) == [fn |-> fn, done |-> TRUE, arg |-> arg, before |-> state, prev |-> Brief(call)]

\* setState(newState) and setState(newState, false)
Commit(newState) ==
    /\ Len(state.history) < MaxHistory
    /\ state' = setState(state, newState, FALSE)
    /\ call' = Logged("commit", newState)
    /\ UNCHANGED <<historyVars, renderVars>>

\* setState(newState, true)
Coalesce(newState) ==
    /\ state' = setState(state, newState, TRUE)
    /\ call' = Logged("coalesce", newState)
    /\ UNCHANGED <<historyVars, renderVars>>

\* undo(), whether or not canUndo
HistoryUndo ==
    /\ state' = undo(state)
    /\ call' = Logged("undo", <<>>)
    /\ UNCHANGED <<historyVars, renderVars>>

\* redo(), whether or not canRedo
HistoryRedo ==
    /\ state' = redo(state)
    /\ call' = Logged("redo", <<>>)
    /\ UNCHANGED <<historyVars, renderVars>>

NextHistory ==
    \/ \E newState \in HistoryValues : Commit(newState)
    \/ \E newState \in HistoryValues : Coalesce(newState)
    \/ HistoryUndo
    \/ HistoryRedo

SpecHistory == Init /\ [][NextHistory]_vars

\* ------------------------------------------------------------- properties
\* The steps of the pointer, read off the event counters.

DownStep == clicks' = clicks + 1

MoveStep == moves' = moves + 1

UpStep == pressed /\ ~pressed'

GestureStates == {"drawing", "draggingSelection", "resizing", "marquee"}

MutatingGestures == {"drawing", "draggingSelection", "resizing"}

\* idle, with no transient context of a gesture left behind
Idle ==
    /\ dragStateRef = "none"
    /\ drawingElement = Null
    /\ marquee = Null
    /\ resizingState = Null
    /\ lastDragPointRef = Null

\* C1: from every non-idle gesture state the next pointer-up is handled and
\* returns the controller to idle with the in-progress element, the marquee
\* rectangle, the resize context and the last drag point cleared, however the
\* state was entered.
C1_PointerUpReturnsToIdle ==
    [][(UpStep /\ dragStateRef \in GestureStates) => Idle']_vars

\* C2: after a completed drag or resize gesture one undo returns the collection
\* to the state it had at the gesture's pointer-down, and a following redo
\* returns it to the state the gesture left.
C2_GestureIsOneUndoStep ==
    /\ gesture.phase = "undone" => elements = gesture.before
    /\ gesture.phase = "redone" => elements = gesture.after

\* C3: every pointer-move of a gesture leaves the history index and length
\* alone, the pointer-up of a drawing, drag or resize gesture advances the
\* index by exactly one, and a marquee gesture never updates the collection.
C3_CoalescedThenOneCommit ==
    [][/\ MoveStep => (state'.index = state.index /\ Len(state'.history) = Len(state.history))
       /\ (UpStep /\ dragStateRef \in MutatingGestures) => state'.index = state.index + 1
       /\ (DownStep /\ dragStateRef' \in GestureStates) => state' = state
       /\ ((DownStep /\ dragStateRef' = "marquee") \/ dragStateRef = "marquee") /\ (DownStep \/ MoveStep \/ UpStep)
              => state' = state]_vars

\* what the pointer-down of this step meets, in the collection as rendered
DownHandle == getHandleAtPoint(elements, selectedElementIds, lastOp'.p)

DownHit == getElementAtPoint(elements, lastOp'.p)

DownIsDoubleClick == now' - lastClickTimeRef < DoubleClickMs

\* C4: a pointer-down with a tool other than pan on a handle of a non-empty
\* selection enters resizing, recording the handle, the group bounds and the
\* selected elements, and changes nothing else: not the selection, not the
\* element being edited, not the collection, and no element is started.
C4_HandleDownOnlyResizes ==
    [][(DownStep /\ tool # "pan" /\ selectedElementIds # {} /\ DownHandle # NoHandle)
        => /\ dragStateRef' = "resizing"
           /\ resizingState' # Null
           /\ resizingState'.handle = DownHandle
           /\ resizingState'.initialSelectionBounds =
                  getElementsBounds(SelectedOf(elements, selectedElementIds))
           /\ resizingState'.initialElements = SelectedOf(elements, selectedElementIds)
           /\ selectedElementIds' = selectedElementIds
           /\ editingElementId' = editingElementId
           /\ state' = state
           /\ drawingElement' = drawingElement
           /\ marquee' = marquee
           /\ tool' = tool]_vars

\* a double-click over a text element, with a drawing tool, that grabbed a handle
C4_Witness ==
    /\ lastOp.op = "mouseDown"
    /\ lastOp.quick
    /\ tool \notin {"select", "pan"}
    /\ dragStateRef = "resizing"
    /\ resizingState # Null
    /\ getElementAtPoint(elements, lastOp.p) # Null
    /\ getElementAtPoint(elements, lastOp.p).type = "text"

\* the selection a select-tool pointer-down on element e leaves, e not selected before
Picked(e, shiftKey) == (IF shiftKey THEN selectedElementIds ELSE {}) \cup {e.id}

\* C5 (as stated): with the select tool a pointer-down that hits no handle and
\* hits an element e makes the selection exactly {e} without the modifier and
\* the previous selection with e added with it, and enters draggingSelection
\* with the down-point as the last drag point.
C5_SelectDownPicksElement ==
    [][(DownStep /\ tool = "select" /\ DownHandle = NoHandle /\ DownHit # Null)
        => /\ selectedElementIds' = Picked(DownHit, lastOp'.shift)
           /\ dragStateRef' = "draggingSelection"
           /\ lastDragPointRef' = lastOp'.p]_vars

\* C5 (amended): the same, unless the pointer-down is a double-click on a text
\* element; an element that is already selected leaves the selection as it is.
C5_SelectDownPicksUnlessSelected ==
    [][(DownStep /\ tool = "select" /\ DownHandle = NoHandle /\ DownHit # Null
            /\ ~(DownIsDoubleClick /\ DownHit.type = "text"))
        => /\ selectedElementIds' = IF DownHit.id \in selectedElementIds THEN selectedElementIds
                                    ELSE Picked(DownHit, lastOp'.shift)
           /\ dragStateRef' = "draggingSelection"
           /\ lastDragPointRef' = lastOp'.p]_vars

\* a pointer-down with the modifier that added a second element to the selection
C5_Witness ==
    /\ lastOp.op = "mouseDown"
    /\ lastOp.shift
    /\ tool = "select"
    /\ Cardinality(selectedElementIds) = 2
    /\ dragStateRef = "draggingSelection"
    /\ lastDragPointRef = lastOp.p

\* C6: with the select tool a pointer-down that hits no handle and no element
\* enters marquee with a zero-size rectangle at the down-point, empties the
\* selection without the modifier, keeps it with the modifier, and leaves the
\* collection unchanged.
C6_SelectDownOnEmptyCanvas ==
    [][(DownStep /\ tool = "select" /\ DownHandle = NoHandle /\ DownHit = Null)
        => /\ dragStateRef' = "marquee"
           /\ marquee' = [start |-> lastOp'.p, end |-> lastOp'.p]
           /\ selectedElementIds' = IF lastOp'.shift THEN selectedElementIds ELSE {}
           /\ state' = state]_vars

\* a pointer-down with the modifier on empty canvas that kept a selection
C6_Witness ==
    /\ lastOp.op = "mouseDown"
    /\ lastOp.shift
    /\ dragStateRef = "marquee"
    /\ marquee = [start |-> lastOp.p, end |-> lastOp.p]
    /\ selectedElementIds # {}

\* C7: a pointer-down with a tool other than pan that hits no handle, comes
\* less than 300 ms after the previous handled pointer-down and has a text
\* element topmost under it asks for that element to be edited and leaves the
\* drag state, the selection and the collection unchanged, with no element started.
C7_DoubleClickOnTextEdits ==
    [][(DownStep /\ tool # "pan" /\ DownHandle = NoHandle /\ DownIsDoubleClick
            /\ DownHit # Null /\ DownHit.type = "text")
        => /\ editingElementId' = DownHit.id
           /\ dragStateRef' = dragStateRef
           /\ selectedElementIds' = selectedElementIds
           /\ state' = state
           /\ drawingElement' = drawingElement
           /\ marquee' = marquee
           /\ resizingState' = resizingState
           /\ tool' = tool]_vars

\* a double-click on the text element with a drawing tool
C7_Witness ==
    /\ lastOp.op = "mouseDown"
    /\ lastOp.quick
    /\ tool \in {"pen", "line", "rectangle", "circle"}
    /\ editingElementId # NoId
    /\ getElementAtPoint(elements, lastOp.p) # Null
    /\ getElementAtPoint(elements, lastOp.p).id = editingElementId
    /\ dragStateRef = "none"
    /\ drawingElement = Null

DrawTools == {"pen", "line", "rectangle", "circle"}

\* the variants of Element
ElementKinds == {"pen", "line", "rectangle", "circle", "path", "text", "raster"}

\* C8: a pointer-down enters drawing only with the pen, line, rectangle or
\* circle tool, the element being drawn has one of these four variants, and no
\* element of the collection has a kind outside the variants of Element.
C8_DrawingOnlyWithDrawTools ==
    /\ [](/\ drawingElement # Null => drawingElement.type \in DrawTools
          /\ \A i \in 1..Len(elements) : elements[i].type \in ElementKinds)
    /\ [][(DownStep /\ dragStateRef' = "drawing") => tool \in DrawTools]_vars

\* b is a translated by (dx, dy), with its identity, kind and style kept
IsTranslated(a, b, dx, dy) ==
    /\ b.id = a.id
    /\ b.type = a.type
    /\ b.style = a.style
    /\ Len(b.points) = Len(a.points)
    /\ \A k \in 1..Len(a.points) : b.points[k] = Shift(a.points[k], dx, dy)
    /\ a.bounds # Null => b.bounds = ShiftBox(a.bounds, dx, dy)

DraggedBy(before, after, sel, dx, dy) ==
    /\ Len(after) = Len(before)
    /\ \A i \in 1..Len(before) :
           IF before[i].id \in sel THEN IsTranslated(before[i], after[i], dx, dy)
           ELSE after[i] = before[i]

\* C9: in draggingSelection a pointer-move translates every selected element
\* by the pointer's delta from its previous position, leaves the unselected
\* elements, the identities, the styles, the length and the order alone, and
\* makes the new position the previous one of the next move.
C9_DragTranslatesSelection ==
    [][(MoveStep /\ dragStateRef = "draggingSelection" /\ lastDragPointRef # Null
            /\ selectedElementIds # {})
        => /\ DraggedBy(elements, elements', selectedElementIds,
                        Sub(lastOp'.p.x, lastDragPointRef.x), Sub(lastOp'.p.y, lastDragPointRef.y))
           /\ lastDragPointRef' = lastOp'.p]_vars

\* C10: the stored bounds of every path element are the bounding box of the
\* geometry its path data describes, after any drag and resize.
C10_PathBoundsFollowGeometry ==
    \A i \in 1..Len(elements) :
        elements[i].type = "path" => elements[i].bounds = PathGeometryBounds(elements[i].pathData)

\* ---- a resize tick: this step is a pointer-move handled while resizing ----
ResizeStep == MoveStep /\ dragStateRef = "resizing" /\ resizingState # Null

\* the new group bounds, the anchor and the scale factors of this step's tick
TickBounds ==
    resizeBounds(resizingState.handle, resizingState.initialSelectionBounds, lastOp'.p, lastOp'.shift)

TickOrigin == resizeOrigin(resizingState.handle, resizingState.initialSelectionBounds)

TickScale == resizeScale(resizingState.initialSelectionBounds, TickBounds)

Half2(a, b) == Div(Add(a, b), R(2))

InsideBox(b, outer) ==
    /\ Ge(b.minX, outer.minX) /\ Le(b.maxX, outer.maxX)
    /\ Ge(b.minY, outer.minY) /\ Le(b.maxY, outer.maxY)

\* the element of the gesture-start snapshot with the identity of el
SnapshotOf(el) == LastWithId(resizingState.initialElements, el.id)

InSnapshot(el) == HasId(resizingState.initialElements, el.id)

\* C11: a resize tick maps the bounds of every selected raster element by the
\* tick's anchor-relative affine map, keeps its bitmap reference, and leaves
\* the bounds inside the new group bounds.
C11_RasterFollowsResize ==
    [][ResizeStep =>
        \A i \in 1..Len(elements) :
            (InSnapshot(elements[i]) /\ SnapshotOf(elements[i]).type = "raster")
            => /\ Len(elements') = Len(elements)
               /\ elements'[i].imageUrl = elements[i].imageUrl
               /\ elements'[i].bounds =
                      SwapY(SwapX(AboutBox(SnapshotOf(elements[i]).bounds, TickOrigin, TickScale)))
               /\ InsideBox(elements'[i].bounds, TickBounds)]_vars

\* the anchor and the scale factors as the resize rule states them
AnchorOf(handle, ib) ==
    Pt(IF handle \in {"w", "nw", "sw"} THEN ib.maxX ELSE ib.minX,
       IF handle \in {"n", "nw", "ne"} THEN ib.maxY ELSE ib.minY)

ExtentRatio(newLo, newHi, lo, hi) ==
    IF Sub(hi, lo) = R(0) THEN R(1) ELSE Div(Sub(newHi, newLo), Sub(hi, lo))

MappedAbout(p, o, sx, sy) ==
    Pt(Add(o.x, Mul(Sub(p.x, o.x), sx)), Add(o.y, Mul(Sub(p.y, o.y), sy)))

PointsMapped(after, before, o, sx, sy) ==
    /\ Len(after) = Len(before)
    /\ \A k \in 1..Len(before) :
           /\ after[k] = MappedAbout(before[k], o, sx, sy)
           /\ isFinite(after[k].x) /\ isFinite(after[k].y)
           /\ before[k] = o => after[k] = o

ResizedBy(ib, nb, o, sx, sy) ==
    /\ Ge(sx, R(0)) /\ Ge(sy, R(0))
    /\ Len(elements') = Len(elements)
    /\ \A i \in 1..Len(elements) :
           (InSnapshot(elements[i]) /\ SnapshotOf(elements[i]).type # "raster")
           => PointsMapped(elements'[i].points, SnapshotOf(elements[i]).points, o, sx, sy)

\* C12: a resize tick replaces every point p of every selected point-sequence
\* element, taken from the gesture-start snapshot, by origin + (p - origin) *
\* (scaleX, scaleY): origin is the corner or edge of the initial group bounds
\* opposite the handle, each scale is new extent over initial extent and 1 on
\* an axis of initial extent 0; no scale is negative, no coordinate is NaN or
\* infinite, and a point at the anchor stays where it is.
C12_ResizeMapsPointsAboutAnchor ==
    [][ResizeStep =>
        ResizedBy(resizingState.initialSelectionBounds, TickBounds,
                  AnchorOf(resizingState.handle, resizingState.initialSelectionBounds),
                  ExtentRatio(TickBounds.minX, TickBounds.maxX,
                              resizingState.initialSelectionBounds.minX,
                              resizingState.initialSelectionBounds.maxX),
                  ExtentRatio(TickBounds.minY, TickBounds.maxY,
                              resizingState.initialSelectionBounds.minY,
                              resizingState.initialSelectionBounds.maxY))]_vars

\* a resize tick moved the end of the horizontal line, whose bounds have no height
C12_Witness ==
    /\ lastOp.op = "mouseMove"
    /\ dragStateRef = "resizing"
    /\ resizingState # Null
    /\ resizingState.initialSelectionBounds.minY = resizingState.initialSelectionBounds.maxY
    /\ \E i \in 1..Len(elements) :
           /\ elements[i].id \in selectedElementIds
           /\ elements[i].type = "line"
           /\ elements[i] # SnapshotOf(elements[i])

BoxRatio(b) == Div(Sub(b.maxX, b.minX), Sub(b.maxY, b.minY))

\* Math.abs(a - b) <= 0.01
WithinTolerance(a, b) == Le(RAbs(Sub(a, b)), Norm(1, 100))

\* C13: on a resize tick with the modifier held and a corner handle, when the
\* initial group bounds have a finite positive width/height ratio r and the
\* new group bounds have a height other than 0, their width/height is within
\* 0.01 of r; with an edge handle the modifier changes nothing of the tick.
C13_AspectLockKeepsRatio ==
    [][(ResizeStep /\ lastOp'.shift) =>
        IF IsCorner(resizingState.handle)
        THEN (/\ isFinite(BoxRatio(resizingState.initialSelectionBounds))
              /\ Gt(BoxRatio(resizingState.initialSelectionBounds), R(0))
              /\ TickBounds.maxY # TickBounds.minY)
             => WithinTolerance(BoxRatio(TickBounds), BoxRatio(resizingState.initialSelectionBounds))
        ELSE elements' = resizeElements(elements, resizingState, lastOp'.p, FALSE)]_vars

\* a resize tick from a corner handle on which holding the modifier changed the outcome
C13_Witness ==
    /\ lastOp.op = "mouseMove"
    /\ lastOp.shift
    /\ dragStateRef = "resizing"
    /\ resizingState # Null
    /\ IsCorner(resizingState.handle)
    /\ isFinite(BoxRatio(resizingState.initialSelectionBounds))
    /\ elements # resizeElements(elements, resizingState, lastOp.p, FALSE)
    /\ elements = resizeElements(elements, resizingState, lastOp.p, TRUE)

\* the midpoint of the raw bounds of el lies strictly inside the rectangle spanned by a and b
CenterStrictlyBetween(el, a, b) ==
    /\ Gt(Half2(getRawElementBounds(el).minX, getRawElementBounds(el).maxX), Min(a.x, b.x))
    /\ Lt(Half2(getRawElementBounds(el).minX, getRawElementBounds(el).maxX), Max(a.x, b.x))
    /\ Gt(Half2(getRawElementBounds(el).minY, getRawElementBounds(el).maxY), Min(a.y, b.y))
    /\ Lt(Half2(getRawElementBounds(el).minY, getRawElementBounds(el).maxY), Max(a.y, b.y))

MarqueeHits == {elements[i].id : i \in {k \in 1..Len(elements) :
                                            CenterStrictlyBetween(elements[k], marquee.start, marquee.end)}}

\* C14: in marquee a pointer-move makes its position the rectangle's far
\* corner, and the pointer-up makes the selection S \cup M: M the identities of
\* the elements whose center lies strictly inside the normalized rectangle, S
\* the previous selection with the modifier held and empty without; the
\* marquee is cleared and the collection unchanged.
C14_MarqueeSelectsCentersInside ==
    [][/\ (MoveStep /\ dragStateRef = "marquee" /\ marquee # Null)
            => marquee' = [start |-> marquee.start, end |-> lastOp'.p]
       /\ (UpStep /\ dragStateRef = "marquee" /\ marquee # Null)
            => /\ selectedElementIds' =
                      (IF lastOp'.shift THEN selectedElementIds ELSE {}) \cup MarqueeHits
               /\ marquee' = Null
               /\ dragStateRef' = "none"
               /\ state' = state]_vars

\* a marquee released with the modifier that added the raster to the selected
\* rectangle, with the line's center on the marquee's border
C14_Witness ==
    /\ lastOp.op = "mouseUp"
    /\ lastOp.shift
    /\ dragStateRef = "none"
    /\ marquee = Null
    /\ selectedElementIds = {5, 6}
    /\ Len(elements) = 3

\* ---- the pointer-up that ends a drawing gesture ----
DrawingUp == UpStep /\ dragStateRef = "drawing" /\ drawingElement # Null

\* the element this step appended to the collection
Committed == elements'[Len(elements')]

\* the 0-based indices kept of n captured points, and the j-th smallest of them
KeptIndices(n) == {i \in 0..(n - 1) : i % 4 = 0 \/ i = n - 1}

KeptAt(n, j) == CHOOSE i \in KeptIndices(n) : Cardinality({k \in KeptIndices(n) : k < i}) = j - 1

IsSimplified(kept, captured) ==
    /\ Len(kept) = Cardinality(KeptIndices(Len(captured)))
    /\ \A j \in 1..Len(kept) : kept[j] = captured[KeptAt(Len(captured), j) + 1]
    /\ kept[1] = captured[1]
    /\ kept[Len(kept)] = captured[Len(captured)]
    /\ Len(captured) = 21 =>
           kept = <<captured[1], captured[5], captured[9], captured[13], captured[17], captured[21]>>

\* C15: the pointer-up of a pen stroke with n > 20 captured points commits
\* exactly the captured points at the indices i with i mod 4 = 0 and at n - 1,
\* in order, none twice; a stroke with n <= 20 points is committed unchanged;
\* 21 points give the indices 0, 4, 8, 12, 16, 20.
C15_PenStrokeSimplified ==
    [][(DrawingUp /\ drawingElement.type = "pen") =>
        /\ Len(elements') = Len(elements) + 1
        /\ Committed.type = "pen"
        /\ IF Len(drawingElement.points) > 20
           THEN IsSimplified(Committed.points, drawingElement.points)
           ELSE Committed.points = drawingElement.points]_vars

\* a committed pen stroke of 21 captured points, and one of 22
C15_Witness ==
    /\ lastOp.op = "mouseUp"
    /\ dragStateRef = "none"
    /\ Len(elements) > 0
    /\ elements[Len(elements)].type = "pen"
    /\ moves = 19
    /\ Len(elements[Len(elements)].points) = 6

\* a pointer-down that starts an element, and a pointer-move while one is drawn
DrawingDown == DownStep /\ dragStateRef' = "drawing" /\ drawingElement' # Null

DrawingMove == MoveStep /\ dragStateRef = "drawing" /\ drawingElement # Null

\* C16: while drawing, a pen element's points are the down-point followed by
\* every sampled pointer-move position in order, each stored once; a line,
\* rectangle or circle element has exactly two points, its start point and
\* the latest pointer position.
C16_DrawingTracksPointer ==
    [][/\ (DrawingDown /\ drawingElement'.type = "pen")
            => drawingElement'.points = <<lastOp'.p>>
       /\ (DrawingDown /\ drawingElement'.type \in {"line", "rectangle", "circle"})
            => Len(drawingElement'.points) = 2 /\ drawingElement'.points[2] = lastOp'.p
       /\ (DrawingMove /\ drawingElement.type = "pen")
            => drawingElement' # Null /\ drawingElement'.points = Append(drawingElement.points, lastOp'.p)
       /\ (DrawingMove /\ drawingElement.type \in {"line", "rectangle", "circle"})
            => drawingElement' # Null
               /\ drawingElement'.points = <<drawingElement.points[1], lastOp'.p>>]_vars

\* a pointer-down with a drawing tool that gets as far as the tool dispatch
ReachesDrawing ==
    /\ DownStep
    /\ tool \in DrawTools
    /\ DownHandle = NoHandle
    /\ ~(DownIsDoubleClick /\ DownHit # Null /\ DownHit.type = "text")

\* C17: a pointer-down with the line tool on top of an element t starts a line
\* whose first point is attachmentPoint(t, down-point) and whose start
\* reference is t's identity; on no element the first point is the down-point
\* and there is no start reference; no other drawing tool records a reference.
C17_LineStartSnapsToElement ==
    [][ReachesDrawing =>
        /\ drawingElement' # Null
        /\ drawingElement'.type = tool
        /\ IF tool = "line" /\ DownHit # Null
           THEN /\ drawingElement'.points[1] = getAttachmentPoint(DownHit, lastOp'.p)
                /\ drawingElement'.startElementId = DownHit.id
           ELSE /\ drawingElement'.points[1] = lastOp'.p
                /\ drawingElement'.startElementId = NoId]_vars

\* a line started inside the rectangle: snapped to its top-right corner
C17_Witness ==
    /\ lastOp.op = "mouseDown"
    /\ lastOp.p = P(50, 25)
    /\ tool = "line"
    /\ drawingElement # Null
    /\ drawingElement.startElementId = 1
    /\ drawingElement.points = <<P(60, 20), P(50, 25)>>

\* C18: the pointer-up of a line whose end point is on top of an element t
\* commits the line with attachmentPoint(t, end point) as its end point and
\* t's identity as its end reference.
C18_LineEndSnapsToElement ==
    [][(/\ DrawingUp
        /\ drawingElement.type = "line"
        /\ getElementAtPoint(elements, drawingElement.points[2]) # Null
        /\ getElementAtPoint(elements, drawingElement.points[2]).id # drawingElement.startElementId)
        => /\ Len(elements') = Len(elements) + 1
           /\ Committed.type = "line"
           /\ Committed.points[2] =
                  getAttachmentPoint(getElementAtPoint(elements, drawingElement.points[2]),
                                     drawingElement.points[2])
           /\ Committed.endElementId =
                  getElementAtPoint(elements, drawingElement.points[2]).id]_vars

\* ---- the bitmap cache ----
StatusIn(cache, k) == IF cache[k] = Null THEN "absent" ELSE cache[k].status

Completes(k) ==
    StatusIn(imageCache, k) # StatusIn(imageCache', k) /\ StatusIn(imageCache', k) \in {"loaded", "error"}

\* C19: the re-render callback is called exactly once when a bitmap key
\* becomes loaded, exactly once when it becomes errored, and at no other step.
C19_CallbackOncePerCompletion ==
    [][\A k \in ImageKeys :
          renderLog'.calls[k] = renderLog.calls[k] + (IF Completes(k) THEN 1 ELSE 0)]_vars

StatusMoves == {<<"absent", "loading">>, <<"loading", "loaded">>, <<"loading", "error">>}

Made(fn) == call.fn = fn /\ call.done

\* the per-element hit test succeeds: it returns true and raises nothing
Succeeds(point, el) == ~rawBoundsThrow(el) /\ isPointInElement(point, el, R(ZoomScale))

HitIndices(els, point) == {i \in 1..Len(els) : Succeeds(point, els[i])}

Topmost(S) == CHOOSE i \in S : \A j \in S : j <= i

\* C21: getElementAtPoint returns the element latest in draw order among
\* those whose hit test succeeds, and null exactly when no element's hit test
\* succeeds.
C21_TopmostHitReturned ==
    Made("getElementAtPoint") =>
        IF HitIndices(call.args.elements, call.args.point) = {}
        THEN call.result = Null
        ELSE /\ call.result # Null
             /\ call.result =
                    call.args.elements[Topmost(HitIndices(call.args.elements, call.args.point))]

\* a point under two elements, the upper one returned
C21_Witness ==
    /\ Made("getElementAtPoint")
    /\ Cardinality(HitIndices(call.args.elements, call.args.point)) >= 2
    /\ call.result # Null
    /\ call.result.id = call.args.elements[Len(call.args.elements)].id

\* the topmost element at the down-point among those whose hit test succeeds
DownTop == elements[Topmost(HitIndices(elements, lastOp'.p))]

DownMisses == HitIndices(elements, lastOp'.p) = {}

\* C22: when the hit test of an element of the collection raises, a
\* pointer-down off the handles still makes its transition, with the topmost
\* element among those whose test succeeds: the select tool starts dragging
\* it, or a marquee when there is none, and the line tool starts a line that
\* records it, or records nothing when there is none.
C22_FailingElementSkipped ==
    [][(DownStep /\ centerThrows(elements) /\ DownHandle = NoHandle)
        => /\ (tool = "select" /\ DownMisses)
                => /\ dragStateRef' = "marquee"
                   /\ marquee' = [start |-> lastOp'.p, end |-> lastOp'.p]
           /\ (tool = "select" /\ ~DownMisses /\ ~(DownIsDoubleClick /\ DownTop.type = "text"))
                => /\ dragStateRef' = "draggingSelection"
                   /\ DownTop.id \in selectedElementIds'
                   /\ lastDragPointRef' = lastOp'.p
           /\ (tool = "line" /\ (DownMisses \/ ~(DownIsDoubleClick /\ DownTop.type = "text")))
                => /\ dragStateRef' = "drawing"
                   /\ drawingElement' # Null
                   /\ drawingElement'.startElementId = IF DownMisses THEN NoId ELSE DownTop.id]_vars

\* a pointer-down that picked the element under one whose hit test raises
C22_Witness ==
    /\ lastOp.op = "mouseDown"
    /\ dragStateRef = "draggingSelection"
    /\ \E i, j \in 1..Len(elements) :
          /\ i < j
          /\ rawBoundsThrow(elements[j])
          /\ Succeeds(lastOp.p, elements[i])
          /\ selectedElementIds = {elements[i].id}

\* C23: no two elements of the collection carry the same identity, whatever
\* drawing gestures, text creations, drags and whole-collection replacements
\* came before.
C23_IdentitiesDistinct ==
    \A i, j \in 1..Len(elements) : i # j => elements[i].id # elements[j].id

\* a line whose recorded start element is not in the collection
Unresolved(el, els) == el.type = "line" /\ el.startElementId # NoId /\ ~HasId(els, el.startElementId)

SomeUnresolved == \E i \in 1..Len(elements) : Unresolved(elements[i], elements)

Unref(el) == [el EXCEPT !.startElementId = NoId, !.endElementId = NoId]

UnrefAll(els) == [i \in 1..Len(els) |-> Unref(els[i])]

\* a controller state with no reference recorded in any element
UnrefView(c) ==
    [c EXCEPT !.state = [history |-> [k \in DOMAIN c.state.history |-> UnrefAll(c.state.history[k])],
                         index |-> c.state.index],
              !.drawing = IF c.drawing = Null THEN Null ELSE Unref(c.drawing),
              !.resizing = IF c.resizing = Null THEN Null
                           ELSE [c.resizing EXCEPT !.initialElements = UnrefAll(@)],
              !.rerender = FALSE]

\* the controller state after the step; a line started by the step records
\* the element it starts on, which is in the collection
AfterStep ==
    [state |-> state', tool |-> tool', style |-> style', sel |-> selectedElementIds', editing |-> editingElementId',
     drawing |-> drawingElement', marquee |-> marquee', resizing |-> resizingState',
     drag |-> dragStateRef', lastDrag |-> lastDragPointRef', lastClick |-> lastClickTimeRef',
     rerender |-> FALSE]

\* C24: ending a text edit, with the text removed when it is empty, leaves
\* every line of the collection in it as it was (points, style, recorded
\* reference), and while a line's reference is unresolved every pointer-down,
\* handled pointer-move and handled pointer-up leads where it leads from the
\* same state with no reference recorded.
C24_LineOutlivesItsReference ==
    /\ [][lastOp'.op = "finishEditing"
            => \A i \in 1..Len(elements) :
                  (elements[i].type = "line" /\ elements[i].id # editingElementId)
                      => \E j \in 1..Len(elements') : elements'[j] = elements[i]]_vars
    /\ [][(SomeUnresolved /\ DownStep)
            => UnrefView(AfterStep) =
                   UnrefView(handleMouseDown(UnrefView(View), lastOp'.p, lastOp'.shift, now'))]_vars
    /\ [][(SomeUnresolved /\ MoveStep /\ listening)
            => UnrefView(AfterStep) =
                   UnrefView(handleMouseMove(UnrefView(View), lastOp'.p, lastOp'.shift))]_vars
    /\ [][(SomeUnresolved /\ UpStep /\ listening)
            => UnrefView(AfterStep) = UnrefView(handleMouseUp(UnrefView(View), lastOp'.shift))]_vars

\* a line whose start element was removed, picked up afterwards by a drag gesture
\* that ended in idle
C24_Witness ==
    /\ SomeUnresolved
    /\ lastOp.op = "mouseUp"
    /\ gesture.phase = "done"
    /\ dragStateRef = "none"
    /\ ~listening

\* the argument count of a command is a whole number of its groups: none for
\* closepath, ones for H and V, sevens for arcs, pairs for the others
Complete(c) ==
    CASE ToUpper(c.cmd) = "Z" -> Len(c.args) = 0
      [] ToUpper(c.cmd) \in {"H", "V"} -> Len(c.args) > 0
      [] ToUpper(c.cmd) = "A" -> Len(c.args) > 0 /\ Len(c.args) % 7 = 0
      [] OTHER -> Len(c.args) > 0 /\ Len(c.args) % 2 = 0

CompleteUpTo(pathData, i) == \A k \in 1..i : Complete(pathData[k])

\* x * sx + t.x, with no translation for a relative command
MappedX(cmd, v, a) == Add(Mul(v, a.scaleX), IF isRelativeCmd(cmd) THEN R(0) ELSE a.translate.x)

MappedY(cmd, v, a) == Add(Mul(v, a.scaleY), IF isRelativeCmd(cmd) THEN R(0) ELSE a.translate.y)

\* what the j-th argument of a command becomes, by the command and the place
\* of the argument in its group
MappedArg(cmd, v, j, a) ==
    CASE ToUpper(cmd) = "H" -> MappedX(cmd, v, a)
      [] ToUpper(cmd) = "V" -> MappedY(cmd, v, a)
      [] ToUpper(cmd) = "A" ->
            CASE (j - 1) % 7 = 0 -> Mul(v, RAbs(a.scaleX))
              [] (j - 1) % 7 = 1 -> Mul(v, RAbs(a.scaleY))
              [] (j - 1) % 7 \in {2, 3, 4} -> v
              [] (j - 1) % 7 = 5 -> MappedX(cmd, v, a)
              [] OTHER -> MappedY(cmd, v, a)
      [] OTHER -> IF j % 2 = 1 THEN MappedX(cmd, v, a) ELSE MappedY(cmd, v, a)

MappedArgs(c, a) == [j \in 1..Len(c.args) |-> MappedArg(c.cmd, c.args[j], j, a)]

\* the commands up to the first incomplete one are written in their order,
\* each with the given letter and its arguments mapped
MappedWith(Letter(_)) ==
    \A i \in 1..Len(call.args.pathData) :
        CompleteUpTo(call.args.pathData, i)
            => /\ i <= Len(call.result)
               /\ call.result[i] = Cmd(Letter(call.args.pathData[i].cmd),
                                       MappedArgs(call.args.pathData[i], call.args))

SameLetter(c) == c

ClosepathUpper(c) == IF c = "z" THEN "Z" ELSE c

WellFormed(pathData) == CompleteUpTo(pathData, Len(pathData))

ArgsOf(pathData) == [i \in 1..Len(pathData) |-> pathData[i].args]

\* C26: for a well-formed path, transformPathData with scale 1 and no
\* translation leaves every argument as it is, translatePathData(p, dx, dy)
\* is transformPathData(p, 1, 1, {dx, dy}), and a transform by 2 and {10, 10}
\* followed by one by 0.5 and {-5, -5} gives the arguments of p back, for
\* absolute and relative commands.
C26_TransformsCompose ==
    /\ (/\ Made("transformPathData")
        /\ WellFormed(call.args.pathData)
        /\ call.args.scaleX = R(1)
        /\ call.args.scaleY = R(1)
        /\ call.args.translate = P(0, 0))
            => ArgsOf(call.result) = ArgsOf(call.args.pathData)
    /\ (Made("translatePathData") /\ WellFormed(call.args.pathData))
            => call.result = transformPathData(call.args.pathData, R(1), R(1), call.args.d)
    /\ (Made("thereAndBack") /\ WellFormed(call.args.pathData))
            => ArgsOf(call.result) = ArgsOf(call.args.pathData)

\* C27: for every input of transformPathData, incomplete argument groups
\* included, the output has the commands of the input (closepath as Z) with
\* as many arguments each, every argument a finite number, and the empty
\* input gives the empty output.
C27_MalformedDegradesSafely ==
    Made("transformPathData") =>
        /\ Len(call.result) = Len(call.args.pathData)
        /\ \A i \in 1..Len(call.args.pathData) :
              i <= Len(call.result) =>
                  /\ call.result[i].cmd = ClosepathUpper(call.args.pathData[i].cmd)
                  /\ Len(call.result[i].args) = Len(call.args.pathData[i].args)
                  /\ \A j \in 1..Len(call.result[i].args) : isFinite(call.result[i].args[j])

BoxLike(el) == el.type # "circle"

Degenerate(b) == b.minX = b.maxX \/ b.minY = b.maxY

FinitePoint(p) == isFinite(p.x) /\ isFinite(p.y)

\* C28: for an element that is not a circle and whose raw bounds have no
\* width or no height, getAttachmentPoint returns the center of the element
\* for every target, the center itself included, and never a NaN or an
\* infinite coordinate.
C28_DegenerateAttachesAtCenter ==
    (/\ Made("getAttachmentPoint")
     /\ BoxLike(call.args.element)
     /\ Degenerate(getRawElementBounds(call.args.element)))
        => /\ call.result = getElementCenter(call.args.element)
           /\ FinitePoint(call.result)

\* p - q as a vector
Minus(p, q) == Pt(Sub(p.x, q.x), Sub(p.y, q.y))

Cross(u, v) == Sub(Mul(u.x, v.y), Mul(u.y, v.x))

Dot(u, v) == Add(Mul(u.x, v.x), Mul(u.y, v.y))

\* p lies on the ray from center through target
OnRay(center, target, p) ==
    /\ Cross(Minus(p, center), Minus(target, center)) = R(0)
    /\ Ge(Dot(Minus(p, center), Minus(target, center)), R(0))

HalfWidth(b) == Div(Sub(b.maxX, b.minX), R(2))

HalfHeight(b) == Div(Sub(b.maxY, b.minY), R(2))

OnVerticalEdge(b, p) == p.x \in {b.minX, b.maxX} /\ Le(b.minY, p.y) /\ Le(p.y, b.maxY)

OnHorizontalEdge(b, p) == p.y \in {b.minY, b.maxY} /\ Le(b.minX, p.x) /\ Le(p.x, b.maxX)

\* the distance is a rational number, so that Math.hypot returns it exactly
ExactDistance(d) == Mul(Sqrt(Hypot2(d.x, d.y)), Sqrt(Hypot2(d.x, d.y))) = Hypot2(d.x, d.y)

\* |dy/dx| < height/width, with dx = 0 giving an infinite slope
ShallowerThanDiagonal(b, d) ==
    d.x # R(0) /\ Lt(Mul(RAbs(d.y), HalfWidth(b)), Mul(HalfHeight(b), RAbs(d.x)))

OnCircle(b, center, target, p) ==
    IF target = center THEN p = Pt(Add(center.x, HalfWidth(b)), center.y)
    ELSE /\ FinitePoint(p)
         /\ OnRay(center, target, p)
         /\ ExactDistance(Minus(target, center))
                => Hypot2(Sub(p.x, center.x), Sub(p.y, center.y)) = Mul(HalfWidth(b), HalfWidth(b))

OnBox(b, center, target, p) ==
    /\ FinitePoint(p)
    /\ OnVerticalEdge(b, p) \/ OnHorizontalEdge(b, p)
    /\ target # center =>
           /\ OnRay(center, target, p)
           /\ IF ShallowerThanDiagonal(b, Minus(target, center))
              THEN OnVerticalEdge(b, p) ELSE OnHorizontalEdge(b, p)

\* C29: getAttachmentPoint returns a point of the element's boundary toward
\* the target: on a circle the point at distance radius from the center on
\* the ray to the target, and (center.x + radius, center.y) when the target
\* is the center; on any other element with non-zero width and height a
\* point of the raw bounds rectangle on the ray from the center to the
\* target, on a vertical edge when |dy/dx| < height/width and on a
\* horizontal edge otherwise.
C29_AttachmentOnBoundaryTowardTarget ==
    Made("getAttachmentPoint") =>
        LET el == call.args.element
            b == getRawElementBounds(el)
        IN  IF el.type = "circle"
            THEN OnCircle(b, getElementCenter(el), call.args.target, call.result)
            ELSE ~Degenerate(b) => OnBox(b, getElementCenter(el), call.args.target, call.result)

\* the circle centered at (0,0) of radius 10 asked for the target (100,0)
C29_Witness ==
    /\ Made("getAttachmentPoint")
    /\ call.args.element.type = "circle"
    /\ getElementCenter(call.args.element) = P(0, 0)
    /\ HalfWidth(getRawElementBounds(call.args.element)) = R(10)
    /\ call.args.target = P(100, 0)
    /\ call.result = P(10, 0)

RawBoxes(els) == {getRawElementBounds(els[i]) : i \in 1..Len(els)}

\* v is the least of the values vs
Least(v, vs) == v \in vs /\ \A u \in vs : Le(v, u)

\* v is the greatest of the values vs
Greatest(v, vs) == v \in vs /\ \A u \in vs : Ge(v, u)

UnionOf(boxes, b) ==
    /\ Least(b.minX, {x.minX : x \in boxes})
    /\ Least(b.minY, {x.minY : x \in boxes})
    /\ Greatest(b.maxX, {x.maxX : x \in boxes})
    /\ Greatest(b.maxY, {x.maxY : x \in boxes})

Thicker(el) == [el EXCEPT !.style.strokeWidth = Add(el.style.strokeWidth, R(10))]

\* C30: getElementsBounds of the empty list is the zero box, of a single
\* element is that element's raw bounds, and of any non-empty list has the
\* least minX and minY and the greatest maxX and maxY of the elements' raw
\* bounds; the same list in reverse order, or with thicker strokes, gives
\* the same box.
C30_GroupBoundsIsUnionOfRawBounds ==
    Made("getElementsBounds") =>
        LET els == call.args.elements
        IN  /\ Len(els) = 0 => call.result = ZeroBox
            /\ Len(els) = 1 => call.result = getRawElementBounds(els[1])
            /\ Len(els) > 0 => UnionOf(RawBoxes(els), call.result)
            /\ getElementsBounds([i \in 1..Len(els) |-> els[Len(els) + 1 - i]]) = call.result
            /\ getElementsBounds([i \in 1..Len(els) |-> Thicker(els[i])]) = call.result

\* two elements neither of whose raw bounds is the result
C30_Witness ==
    /\ Made("getElementsBounds")
    /\ Len(call.args.elements) = 2
    /\ call.args.elements[1].style.strokeWidth # call.args.elements[2].style.strokeWidth
    /\ call.result \notin RawBoxes(call.args.elements)

\* four finite numbers with the minima not above the maxima
DefinedBox(b) ==
    /\ isFinite(b.minX) /\ isFinite(b.minY) /\ isFinite(b.maxX) /\ isFinite(b.maxY)
    /\ Le(b.minX, b.maxX)
    /\ Le(b.minY, b.maxY)

\* inner lies within outer at the distance d from each of its four sides
ExpandedBy(inner, outer, d) ==
    /\ Sub(inner.minX, outer.minX) = d
    /\ Sub(inner.minY, outer.minY) = d
    /\ Sub(outer.maxX, inner.maxX) = d
    /\ Sub(outer.maxY, inner.maxY) = d

\* no points, and for a path or a raster no recorded bounds either
NoGeometry(el) == el.points = <<>> /\ (el.type \in {"path", "raster"} => el.bounds = Null)

GestureTick ==
    /\ MoveStep \/ UpStep
    /\ listening
    /\ dragStateRef \in {"resizing", "draggingSelection"}

Unselected(el) == el.id \notin selectedElementIds

\* the step leaves every element that is not selected as it is
UnselectedKept ==
    /\ Len(elements') = Len(elements)
    /\ \A i \in 1..Len(elements) : Unselected(elements[i]) => elements'[i] = elements[i]

\* C32: a pointer-move or pointer-up of a resizing or draggingSelection
\* gesture modifies only elements of the current selection; after a
\* whole-collection replacement in mid-gesture, which clears the selection,
\* the rest of the gesture changes no element of the new collection, even
\* one that carries the identity of an element captured at gesture start.
C32_TickModifiesSelectionOnly ==
    [][GestureTick => UnselectedKept]_vars

VectorKinds == {"rectangle", "line", "pen", "path"}

SelectionNow == SelectedOf(elements, selectedElementIds)

SelectionNext == SelectedOf(elements', selectedElementIds')

\* C33: after each resizing pointer-move on a selection of rectangle, line,
\* pen and path elements the group bounds of the selected elements are the
\* new group bounds computed for that move, whatever the handle and the
\* cursor position, the positions beyond the anchor included.
C33_ResizedSelectionFillsNewBounds ==
    [][(/\ ResizeStep
        /\ listening
        /\ \A i \in 1..Len(SelectionNow) : SelectionNow[i].type \in VectorKinds)
       => getElementsBounds(SelectionNext) = TickBounds]_vars

\* the points, path data and bounds of an element
Geometry(el) == [points |-> el.points, pathData |-> el.pathData, bounds |-> el.bounds]

\* the collection a single pointer-move of this step's cursor and modifier
\* produces from the collection the gesture started from
SingleMove == resizeElements(gesture.before, resizingState, lastOp'.p, lastOp'.shift)

\* this step's new group bounds are the initial group bounds
BackToStart == TickBounds = resizingState.initialSelectionBounds

Resized(i) ==
    /\ elements[i].id \in selectedElementIds
    /\ InSnapshot(elements[i])
    /\ SnapshotOf(elements[i]).type # "raster"

\* C34: after every pointer-move of a resizing gesture, whatever moves came
\* before it, the geometry of each selected element that is not a raster is
\* the one a single pointer-move to the same cursor position produces from
\* the collection at gesture start; when the move's new group bounds are the
\* initial group bounds, every point and every path bound is the original.
C34_ResizeTicksNotCumulative ==
    [][(ResizeStep /\ listening /\ gesture.phase = "active") =>
        /\ Len(elements') = Len(gesture.before)
        /\ \A i \in 1..Len(elements) :
               Resized(i) =>
                   /\ Geometry(elements'[i]) = Geometry(SingleMove[i])
                   /\ BackToStart => /\ elements'[i].points = gesture.before[i].points
                                     /\ elements'[i].bounds = gesture.before[i].bounds]_vars

\* the second pointer-move, back to the south-east corner of the group
\* scene's rectangle while it is resized, leaves the scene as it was
C34_Witness ==
    /\ lastOp.op = "mouseMove"
    /\ lastOp.p = P(60, 40)
    /\ moves = 2
    /\ dragStateRef = "resizing"
    /\ resizingState # Null
    /\ selectedElementIds = {5}
    /\ gesture.phase = "active"
    /\ gesture.before = SceneGroup
    /\ elements = SceneGroup

\* the last call was fn
Called(fn) == call.fn = fn

\* C35: under committed updates, coalesced updates, undo and redo the history
\* is never empty and 0 <= index < length of the history; undo at index 0
\* and redo at the last index leave the state as it is; canUndo is true
\* exactly when index > 0 and canRedo exactly when index < length - 1.
C35_HistoryIndexInRange ==
    /\ Len(state.history) > 0
    /\ 0 <= state.index
    /\ state.index < Len(state.history)
    /\ (Called("undo") /\ call.before.index = 0) => state = call.before
    /\ (Called("redo") /\ call.before.index = Len(call.before.history) - 1) => state = call.before
    /\ canUndo(state) <=> state.index > 0
    /\ canRedo(state) <=> state.index < Len(state.history) - 1

\* redo was called with the history at its last entry, after an undo and more
C35_Witness ==
    /\ Called("redo")
    /\ call.before.index = Len(call.before.history) - 1
    /\ Len(state.history) = MaxHistory
    /\ canUndo(state)
    /\ ~canRedo(state)

\* the entries of a history up to and including the current one
UpToCurrent(st) == SubSeq(st.history, 1, st.index + 1)

\* the last two calls were first and then second
CalledInTurn(first, second) == Called(second) /\ call.prev.fn = first

\* C36: a committed update leaves the history as the entries up to the
\* current one followed by the new state, which is current, so that redo is
\* not possible and one undo makes current the state that was current before
\* the update; undo followed by redo, and redo followed by undo, each
\* possible when called, restore the index and leave the entries unchanged.
C36_CommitTruncatesUndoRedoInverse ==
    /\ Called("commit") =>
           /\ state.history = Append(UpToCurrent(call.before), call.arg)
           /\ state.index = Len(state.history) - 1
           /\ current(state) = call.arg
           /\ ~canRedo(state)
    /\ CalledInTurn("commit", "undo") =>
           /\ current(state) = current(call.prev.before)
           /\ state.history = call.before.history
    /\ (CalledInTurn("undo", "redo") /\ canUndo(call.prev.before)) => state = call.prev.before
    /\ (CalledInTurn("redo", "undo") /\ canRedo(call.prev.before)) => state = call.prev.before

\* an undo after a committed update that discarded entries
C36_Witness ==
    /\ CalledInTurn("commit", "undo")
    /\ canRedo(call.prev.before)
    /\ canUndo(call.prev.before)
    /\ current(state) # call.prev.arg

\* C37: a coalesced update replaces the history entry at the current index
\* and nothing else: the length of the history, the index and every entry
\* before and after the current one are as before, also when the update
\* follows an undo and entries to redo exist.
C37_CoalesceReplacesCurrentOnly ==
    Called("coalesce") =>
        /\ Len(state.history) = Len(call.before.history)
        /\ state.index = call.before.index
        /\ current(state) = call.arg
        /\ \A i \in 1..Len(state.history) :
               i # state.index + 1 => state.history[i] = call.before.history[i]

\* a coalesced update after an undo, between an entry to undo and one to redo
C37_Witness ==
    /\ CalledInTurn("undo", "coalesce")
    /\ canUndo(state)
    /\ canRedo(state)
    /\ current(state) # current(call.before)
    /\ current(state) # state.history[state.index + 2]

\* the identities of the elements of the current collection
Present == {elements[i].id : i \in 1..Len(elements)}

\* C38: after any sequence of pointer gestures, whole-collection
\* replacements, undo and redo, every identity in the selection is the
\* identity of an element of the current collection.
C38_SelectionWithinCollection == selectedElementIds \subseteq Present

\* what a drawn element keeps from pointer-down to its commit
Carried(el) == [id |-> el.id, type |-> el.type, style |-> el.style]

\* C39: a drawing gesture with the pen, line, rectangle or circle tool
\* starts an element that carries the style active at pointer-down; every
\* pointer-move keeps that style; the pointer-up appends exactly that one
\* element at the end of the collection, leaves every element that was there
\* and the selection as they were, and clears the in-progress element.
C39_DrawingAppendsOneElement ==
    [][/\ (DrawingDown /\ tool \in DrawTools) =>
              /\ drawingElement'.type = tool
              /\ drawingElement'.style = style
              /\ elements' = elements
              /\ selectedElementIds' = selectedElementIds
       /\ (DrawingMove /\ listening /\ drawingElement.type \in DrawTools) =>
              /\ drawingElement' # Null
              /\ Carried(drawingElement') = Carried(drawingElement)
              /\ elements' = elements
              /\ selectedElementIds' = selectedElementIds
       /\ (DrawingUp /\ drawingElement.type \in DrawTools) =>
              /\ listening
              /\ elements' = Append(elements, Committed)
              /\ Carried(Committed) = Carried(drawingElement)
              /\ selectedElementIds' = selectedElementIds
              /\ drawingElement' = Null
              /\ dragStateRef' = "none"]_vars

\* an element was drawn and committed while another is selected, and the
\* active style was changed since the pointer-down
C39_Witness ==
    /\ lastOp.op = "mouseUp"
    /\ dragStateRef = "none"
    /\ drawingElement = Null
    /\ selectedElementIds # {}
    /\ Len(elements) = 3
    /\ elements[3].type \in DrawTools
    /\ elements[3].style # style
    /\ elements[3].points[1] # elements[3].points[Len(elements[3].points)]
====
